---------------------------- MODULE Spec2Model ----------------------------
(***************************************************************************)
(* Model of the disk analyzer of Mole (cmd/analyze/main.go, first variant  *)
(* in the file: lines 1-2553).                                             *)
(*                                                                         *)
(*   Spec        the bubbletea model (Update / updateKey), the scanCmd     *)
(*               goroutines with the singleflight group, the persistent    *)
(*               gob cache and the delete command, over a small file tree. *)
(*   SpecCmd     scanCmd alone: requests for scans that overlap in any     *)
(*               way, the cache files, and directories modified by other   *)
(*               processes.                                                *)
(*   SpecCursor  the keys that move the cursors of the lists or read the   *)
(*               row under them, with scans and a delete in flight.        *)
(*   SpecDelete  deletePathWithProgress, one filesystem call per step.     *)
(*   SpecScan    scanPathConcurrent over a root with many children.        *)
(*   SpecWalk    scanPathConcurrent and calculateDirSizeConcurrent, one    *)
(*               goroutine step at a time, over four small trees.          *)
(*   SpecJoin    the pools, channels and WaitGroups of a scan, the         *)
(*               goroutines counted and sizes left out.                    *)
(*   SpecGrace   loadCacheFromDisk against a directory modified minutes   *)
(*               after its record was saved.                               *)
(*   SpecBatch   a size walk that batches its updates of the shared       *)
(*               progress counters.                                        *)
(*   SpecTracker the largeFileTracker (second variant, lines 4001-4057)    *)
(*               under concurrent add and list.                            *)
(*   SpecOverview the overview screen: its size store and JSON document,   *)
(*               the measureOverviewSize goroutines and their handler.     *)
(*                                                                         *)
(* A path is the sequence of its components: << >> is "/",                 *)
(* <<"Applications","d">> is "/Applications/d".                            *)
(***************************************************************************)
EXTENDS Integers, Sequences, FiniteSets, TLC

(***************************************************************************)
(* Program constants.                                                      *)
(***************************************************************************)
MiB == 1048576

maxEntries == 30

maxLargeFiles == 30

\* maxLargeFiles of the second variant, which has the largeFileTracker
maxLargeFilesTracker == 20

minLargeFileSize == 100 * MiB

\* 7*24*time.Hour, in days: the unit of the model's clock.
cacheTTL == 7

\* overviewCacheTTL, 7*24*time.Hour, in days
overviewCacheTTL == 7

maxConcurrentOverview == 3

(***************************************************************************)
(* Bounds of the model.                                                    *)
(***************************************************************************)
\* scanCmd goroutines started in one behaviour of Spec or SpecCmd
MaxScans == 3

\* directories entered below the first one (the length of m.history)
MaxHistory == 2

\* deletePathCmd goroutines started in one behaviour of Spec
MaxDeletes == 1

\* the files in the directory SpecScan scans: up to more than maxEntries
MaxChildren == 32

\* modifications of directories by other processes in one behaviour of SpecCmd
MaxTouches == 1

\* nodes of the tree of SpecWalk whose listing or stat fails
MaxFaults == 1

\* directories the user enters while the walk of SpecWalk runs
MaxEnters == 1

\* files of at least minLargeFileSize handed to add in SpecTracker: more
\* than the buffer holds before it is cut
MaxAdds == 62

(***************************************************************************)
(* The file tree of Spec.  HOME is unset and /Volumes does not exist, so   *)
(* createOverviewEntries returns "/Applications" and "/Library"; the       *)
(* latter does not exist here, so that listing it fails.                   *)
(***************************************************************************)
ROOT == << >>

APPS == <<"Applications">>

LIB == <<"Library">>

DIR_D == <<"Applications", "d">>

F_BIG == <<"Applications", "d", "big.bin">>

F_C == <<"Applications", "d", "c.bin">>

Dirs == {ROOT, APPS, DIR_D}

Files == {F_BIG, F_C}

Nodes == Dirs \cup Files

\* logical size (st_size) and allocated 512-byte blocks (st_blocks)
FileSize(f) == IF f = F_BIG THEN 200 * MiB ELSE 10 * MiB

FileBlocks(f) == IF f = F_BIG THEN 409600 ELSE 20480

\* the directories created at clock value 1; the process starts at Time0
Time0 == 9


(***************************************************************************)
(* Paths and names.                                                        *)
(***************************************************************************)
Parent(n) == SubSeq(n, 1, Len(n) - 1)

Base(n) == n[Len(n)]

\* filepath.Join(root, name)
Join(root, name) == Append(root, name)

\* n is p or lies below p
Under(n, p) == Len(n) >= Len(p) /\ SubSeq(n, 1, Len(p)) = p

\* os.ReadDir(d): the nodes directly in d
Children(ex, d) == {n \in ex : Len(n) = Len(d) + 1 /\ Parent(n) = d}

\* strings.ToLower(filepath.Ext(path)), on the file names of the model
ExtOf(name) ==
    CASE name \in {"big.bin", "c.bin"} -> ".bin"
      [] name \in {"a.txt", "b.txt"} -> ".txt"
      [] OTHER -> ""

\* the members of the source's tables that the model's names can hit
skipExtensions == {".go", ".js", ".py", ".txt", ".md", ".json"}

skipSystemDirs == {"dev", "tmp", "private", "System", "bin", "etc", "var"}

foldDirs == {".git", "node_modules", ".npm", "_cacache", "vendor", "tmp"}

\* no extension taken to be on the skip-list
skipNoExtension(path) == FALSE

shouldSkipFileForLargeTracking(path) == ExtOf(Base(path)) \in skipExtensions

\* strings.Contains(path, "/.npm/") || strings.Contains(path, "/.tnpm/"):
\* a component before the last one is .npm or .tnpm
InNpmTree(path) ==
    \E i \in 1..(Len(path) - 1) : path[i] \in {".npm", ".tnpm"}

\* strings.HasPrefix(name, "_") and len(name) == 1, on the model's names
HasUnderscorePrefix(name) == name \in {"_cacache", "_npx", "_logs"}

IsSingleChar(name) == name \in {"a", "b", "c", "d"}

shouldFoldDirWithPath(name, path) ==
    \/ name \in foldDirs
    \/ /\ InNpmTree(path)
       /\ \/ Len(path) >= 2 /\ path[Len(path) - 1] \in {".npm", ".tnpm"}
          \/ Len(path) >= 2 /\ HasUnderscorePrefix(path[Len(path) - 1])
          \/ IsSingleChar(name)

\* getActualFileSize on info.Size() and stat.Blocks: the blocks the file
\* takes when that is less than its length (a sparse or a cloud file)
actualFileSize(logical, blocks) ==
    LET actualSize == blocks * 512
    IN  IF actualSize < logical THEN actualSize ELSE logical

getActualFileSize(f) == actualFileSize(FileSize(f), FileBlocks(f))

RECURSIVE SumOver(_, _)
\* the sum of f[x] over the finite set S
SumOver(f, S) ==
    IF S = {} THEN 0
    ELSE LET x == CHOOSE y \in S : TRUE
         IN  f[x] + SumOver(f, S \ {x})

RECURSIVE SumSizes(_)
\* the sum of the sizes of a sequence of entries
SumSizes(s) == IF s = << >> THEN 0 ELSE Head(s).size + SumSizes(Tail(s))

\* the sequences that hold each element of the finite set S once, largest
\* size first: what sort.Slice (not stable) can leave of S in any order
SortedDesc(S) ==
    {s \in [1..Cardinality(S) -> S] :
        /\ \A i, j \in 1..Cardinality(S) : i < j => s[i] # s[j]
        /\ \A i \in 1..(Cardinality(S) - 1) : s[i].size >= s[i + 1].size}

\* the cut one entry short
TruncateOneShort(s, n) == IF Len(s) >= n THEN SubSeq(s, 1, n - 1) ELSE s

\* s[:n] when len(s) > n
Truncate(s, n) == IF Len(s) > n THEN SubSeq(s, 1, n) ELSE s

(***************************************************************************)
(* The walk, as a function of the tree it reads (ex: the existing nodes).  *)
(* No directory of Spec's tree holds both files and subdirectories, so the *)
(* unsynchronised total += size of calculateDirSizeConcurrent cannot lose  *)
(* an update here; du is taken to answer for a folded directory.           *)
(***************************************************************************)
dirEntry(path, size, isDir) ==
    [name |-> Base(path), path |-> path, size |-> size, isDir |-> isDir]

fileEntry(path, size) == [name |-> Base(path), path |-> path, size |-> size]

RECURSIVE calculateDirSizeFast(_, _)
\* filepath.WalkDir summing getActualFileSize of every file below root
calculateDirSizeFast(ex, root) ==
    IF root \in Files THEN getActualFileSize(root)
    ELSE SumOver([k \in Children(ex, root) |-> calculateDirSizeFast(ex, k)],
                 Children(ex, root))

\* du -sk path: 0 when the command fails
calculateDirSizeWithDu(ex, path) ==
    IF path \in ex THEN calculateDirSizeFast(ex, path) ELSE 0

RECURSIVE calculateDirSizeConcurrent(_, _)
calculateDirSizeConcurrent(ex, root) ==
    IF root \notin ex \/ root \notin Dirs THEN 0
    ELSE SumOver(
           [k \in Children(ex, root) |->
              IF k \in Dirs
              THEN IF shouldFoldDirWithPath(Base(k), k)
                   THEN calculateDirSizeWithDu(ex, k)
                   ELSE calculateDirSizeConcurrent(ex, k)
              ELSE getActualFileSize(k)],
           Children(ex, root))

\* a file is sent to largeFileChan
IsLargeFile(f) ==
    ~shouldSkipFileForLargeTracking(f) /\ getActualFileSize(f) >= minLargeFileSize

RECURSIVE LargeFilesBelow(_, _)
\* the files calculateDirSizeConcurrent(root) sends to largeFileChan
LargeFilesBelow(ex, root) ==
    LET kids == Children(ex, root)
    IN  {fileEntry(f, getActualFileSize(f)) : f \in {k \in kids \cap Files : IsLargeFile(k)}}
        \cup UNION {LargeFilesBelow(ex, k) :
                      k \in {j \in kids \cap Dirs : ~shouldFoldDirWithPath(Base(j), j)}}

\* the children of root that get an entry
ScannedChildren(ex, root) ==
    {k \in Children(ex, root) :
        ~(k \in Dirs /\ root = ROOT /\ Base(k) \in skipSystemDirs)}

ChildSize(ex, k) ==
    IF k \in Dirs
    THEN IF shouldFoldDirWithPath(Base(k), k)
         THEN IF calculateDirSizeWithDu(ex, k) <= 0
              THEN calculateDirSizeFast(ex, k)
              ELSE calculateDirSizeWithDu(ex, k)
         ELSE calculateDirSizeConcurrent(ex, k)
    ELSE getActualFileSize(k)

NoResult == [entries |-> << >>, largeFiles |-> << >>, totalSize |-> 0]

\* scanPathConcurrent(root): [result, err], as one value: the walk without
\* interleaving, and mdfind printing the large files the walk finds or
\* nothing.  SpecWalk has the goroutines and what mdfind may print.
scanPathConcurrent(ex, root) ==
    IF root \notin ex \/ root \notin Dirs
    THEN [result |-> NoResult, err |-> TRUE]
    ELSE LET kids == ScannedChildren(ex, root)
             es == {dirEntry(k, ChildSize(ex, k), k \in Dirs) : k \in kids}
             lf == {fileEntry(f, getActualFileSize(f)) :
                       f \in {k \in kids \cap Files : IsLargeFile(k)}}
                   \cup UNION {LargeFilesBelow(ex, k) :
                          k \in {j \in kids \cap Dirs :
                                   ~shouldFoldDirWithPath(Base(j), j)}}
         IN  [result |->
                [entries |-> Truncate(CHOOSE s \in SortedDesc(es) : TRUE, maxEntries),
                 largeFiles |-> Truncate(CHOOSE s \in SortedDesc(lf) : TRUE, maxLargeFiles),
                 totalSize |-> SumOver([k \in kids |-> ChildSize(ex, k)], kids)],
              err |-> FALSE]

(***************************************************************************)
(* The persistent cache: one file per scanned path, written with           *)
(* encoding/gob.  gob sends the exported fields of a struct and refuses a  *)
(* struct type that has fields but no exported one ("type ... has no       *)
(* exported fields"), wherever the type occurs in the value's type.        *)
(***************************************************************************)
\* the fields of the types a cacheEntry is made of (main.go:265-291)
StructFields(t) ==
    CASE t = "cacheEntry" -> {"Entries", "LargeFiles", "TotalSize", "ModTime", "ScanTime"}
      [] t = "dirEntry" -> {"name", "path", "size", "isDir", "lastAccess"}
      [] t = "fileEntry" -> {"name", "path", "size"}

\* an identifier is exported when it starts with an upper-case letter
isExported(f) == f \in {"Entries", "LargeFiles", "TotalSize", "ModTime", "ScanTime"}

\* encoder.Encode(entry) succeeds
gobCanEncode ==
    \A t \in {"cacheEntry", "dirEntry", "fileEntry"} :
        \E f \in StructFields(t) : isExported(f)

\* the states of a cache file
NoFile ==
    [kind |-> "none", res |-> NoResult, ModTime |-> 0, ScanTime |-> 0, asof |-> 0]

Garbled ==
    [kind |-> "garbled", res |-> NoResult, ModTime |-> 0, ScanTime |-> 0, asof |-> 0]

\* asof is a ghost field: the clock when res was read from the tree
Record(res, modTime, scanTime, asof) ==
    [kind |-> "record", res |-> res, ModTime |-> modTime, ScanTime |-> scanTime,
     asof |-> asof]

\* loadCacheFromDisk without the comparison of the modification times
loadCacheIgnoringModTime(file, ex, mt, path, t) ==
    /\ file.kind = "record"
    /\ path \in ex
    /\ ~(t - file.ScanTime > cacheTTL)

\* loadCacheFromDisk: TRUE when it returns the entry, FALSE when it returns
\* an error.  file is the cache file of path, t the wall clock.
loadCacheFromDisk(file, ex, mt, path, t) ==
    /\ file.kind # "none"             \* os.Open
    /\ file.kind = "record"           \* decoder.Decode
    /\ path \in ex                    \* os.Stat(path)
    /\ ~(mt[path] > file.ModTime)     \* info.ModTime().After(entry.ModTime)
    /\ ~(t - file.ScanTime > cacheTTL)

\* a saveCacheToDisk whose Encode succeeds
saveCacheEncoded(file, ex, mt, path, result, t, asof) ==
    IF path \notin ex THEN file ELSE Record(result, mt[path], t, asof)

\* saveCacheToDisk: the cache file it leaves.  os.Create truncates the file
\* before Encode runs, so a failed Encode leaves a file that does not decode.
saveCacheToDisk(file, ex, mt, path, result, t, asof) ==
    IF path \notin ex THEN file
    ELSE IF gobCanEncode THEN Record(result, mt[path], t, asof)
    ELSE Garbled

(***************************************************************************)
(* State.                                                                  *)
(***************************************************************************)
VARIABLES
    \* ---- Spec ----
    m,          \* the bubbletea model (type model), with the ghost fields
                \* running, panicked, asof, vis, delAt
    scans,      \* the scanCmd goroutines, by the order they were started
    nScans,     \* how many were started
    group,      \* scanGroup: path -> the goroutine running the call, 0: none
    saves,      \* the goroutines of scanCmd that will call saveCacheToDisk
    dels,       \* the deletePathCmd goroutines
    nDels,
    disk,       \* the cache file of each path
    fsEx,       \* the nodes that exist
    fsMt,       \* the modification time of each directory
    locked,     \* the files whose removal fails (immutable flag, permissions)
    now,        \* the wall clock; every change of the tree has its own time
    nTouches,   \* ghost: modifications made by other processes so far
    \* ---- SpecDelete ----
    dl,         \* the call of deletePathWithProgress
    dEx,        \* the nodes that exist
    dPerm,      \* the files whose removal fails, the unreadable directories
    \* ---- SpecScan ----
    sc,         \* the call of scanPathConcurrent
    \* ---- SpecTracker ----
    tr,         \* the largeFileTracker and the goroutines that call it
    \* ---- SpecStore ----
    ov          \* the overview size store, its file and its callers

uiVars == <<m, scans, nScans, group, saves, dels, nDels, disk, fsEx, fsMt,
            locked, now, nTouches>>

delVars == <<dl, dEx, dPerm>>

scanVars == <<sc>>

libVars == <<tr, ov>>

vars == <<uiVars, delVars, scanVars, libVars>>

\* the value of a specification's variables that another one leaves alone
Off == [pc |-> "off"]

UiOff ==
    /\ m = Off /\ scans = Off /\ nScans = 0 /\ group = Off /\ saves = {}
    /\ dels = Off /\ nDels = 0 /\ disk = Off /\ fsEx = {} /\ fsMt = Off
    /\ locked = {} /\ now = 0 /\ nTouches = 0

DelOff == dl = Off /\ dEx = {} /\ dPerm = Off

ScanOff == sc = Off

LibOff == tr = Off /\ ov = Off

(***************************************************************************)
(* Spec: the values.                                                       *)
(***************************************************************************)
\* the paths the model can hold in m.path
UIPaths == {ROOT, APPS, LIB, DIR_D}

\* createOverviewEntries with HOME unset and no /Volumes
createOverviewEntries ==
    << [name |-> "Applications", path |-> APPS, size |-> -1, isDir |-> TRUE],
       [name |-> "System Library", path |-> LIB, size |-> -1, isDir |-> TRUE] >>

\* m.deleteTarget == nil
NoTarget == [name |-> "", path |-> ROOT, size |-> -1, isDir |-> FALSE]

\* a goroutine of scanCmd.  pc: idle (not started), load, do (about to call
\* scanGroup.Do), lead (runs the walk), wait (waits for another's walk),
\* ret (has its scanResultMsg), done (Update has handled the message).
\* Ghost fields: src (disk | walk), walk (the goroutine whose walk gave the
\* result, 0: none), asof (the clock when the result was read from the
\* tree), ld (what its loadCacheFromDisk saw), seen (the goroutines running
\* when it started), afterDel (started after Update handled a successful
\* delete), prior (an earlier completed and saved walk of the path as it
\* still is, 0: none), startAt / retAt (the clock when it started / when it
\* returned).
NoLoad == [dec |-> FALSE, later |-> FALSE, old |-> FALSE, gone |-> FALSE]

IdleCmd ==
    [pc |-> "idle", path |-> ROOT, res |-> NoResult, err |-> FALSE,
     src |-> "none", walk |-> 0, asof |-> 0, ld |-> NoLoad, seen |-> {},
     afterDel |-> FALSE, prior |-> 0, startAt |-> -1, retAt |-> -1]

Running(c) == c.pc \in {"load", "do", "lead", "wait"}

\* an earlier scan of path that walked the tree as it still is, returned
\* without error and whose save has run; 0 when there is none
PriorOf(path) ==
    LET ok == {i \in 1..nScans :
                 /\ scans[i].pc = "ret" /\ scans[i].path = path
                 /\ ~scans[i].err /\ scans[i].src = "walk"
                 /\ scans[i].asof = now
                 /\ \A s \in saves : s.id # i}
    IN  IF ok = {} THEN 0 ELSE CHOOSE i \in ok : \A j \in ok : j <= i

NewCmd(path) ==
    [IdleCmd EXCEPT !.pc = "load", !.path = path,
                    !.seen = {i \in 1..nScans : Running(scans[i])},
                    !.afterDel = (m.delAt >= 0),
                    !.prior = PriorOf(path), !.startAt = now]

\* a goroutine whose message Update has handled
DoneCmd == [IdleCmd EXCEPT !.pc = "done"]

IdleDel == [pc |-> "idle", path |-> ROOT, count |-> 0, err |-> FALSE, at |-> -1]

\* historyEntry (cursors of the viewports left out: no list of the model
\* is longer than a viewport, so they stay 0)
snapshotFromModel(mm) ==
    [path |-> mm.path, entries |-> mm.entries, largeFiles |-> mm.largeFiles,
     totalSize |-> mm.totalSize, selected |-> mm.selected,
     largeSelected |-> mm.largeSelected, dirty |-> FALSE, asof |-> mm.asof]

cacheSnapshot(mm) == [snapshotFromModel(mm) EXCEPT !.dirty = FALSE]

clampSelection(sel, n) ==
    IF n = 0 THEN 0
    ELSE IF sel >= n THEN n - 1
    ELSE IF sel < 0 THEN 0
    ELSE sel

RECURSIVE sumKnownEntrySizes(_)
sumKnownEntrySizes(es) ==
    IF es = << >> THEN 0
    ELSE (IF Head(es).size > 0 THEN Head(es).size ELSE 0)
         + sumKnownEntrySizes(Tail(es))

\* f with f[k] set to v, k added to its domain when new
Put(f, k, v) == [x \in DOMAIN f \cup {k} |-> IF x = k THEN v ELSE f[x]]

\* the result of a walk of the tree as it is now
WalkNow(path) == scanPathConcurrent(fsEx, path)

\* newModel(path, false) for the path /Applications, with scanning set as
\* Init() finds it
newModel ==
    [path |-> APPS, history |-> << >>, entries |-> << >>,
     largeFiles |-> << >>, selected |-> 0, totalSize |-> 0,
     scanning |-> TRUE, showLargeFiles |-> FALSE, isOverview |-> FALSE,
     deleteConfirm |-> FALSE, deleteTarget |-> NoTarget,
     deleting |-> FALSE, cache |-> << >>, largeSelected |-> 0,
     overviewSizeCache |-> << >>,
     running |-> TRUE, panicked |-> FALSE, asof |-> 0, vis |-> FALSE,
     delAt |-> -1]

\* a cache file of /Applications that decodes, of the tree as it is and
\* written at time t
GoodRecord(t) == Record(scanPathConcurrent(Nodes, APPS).result, 1, t, t)

InitSpec ==
    /\ fsEx = Nodes
    /\ fsMt = [d \in Dirs |-> 1]
    /\ locked \in {{}, {F_C}}
    /\ now = Time0
    /\ disk = [p \in UIPaths |-> NoFile]
    \* Init(): the first scanCmd is running
    /\ m = newModel
    /\ scans = [i \in 1..MaxScans |->
                  IF i = 1 THEN [IdleCmd EXCEPT !.pc = "load", !.path = APPS]
                  ELSE IdleCmd]
    /\ nScans = 1
    /\ group = [p \in UIPaths |-> 0]
    /\ saves = {}
    /\ dels = [i \in 1..MaxDeletes |-> IdleDel]
    /\ nDels = 0
    /\ nTouches = 0
    /\ DelOff /\ ScanOff /\ LibOff

(***************************************************************************)
(* Spec: the goroutines of scanCmd (main.go:575-609).                      *)
(***************************************************************************)
fsUnchanged == UNCHANGED <<fsEx, fsMt, locked, now, nTouches>>

othersUnchanged == UNCHANGED <<delVars, scanVars, libVars>>

\* a load whose error is returned as the error of the scan
ScanLoadReturnsError(i) ==
    /\ m.running
    /\ scans[i].pc = "load"
    /\ scans' = [scans EXCEPT ![i].pc = "ret", ![i].err = TRUE,
                              ![i].src = "disk", ![i].retAt = now]
    /\ UNCHANGED <<m, nScans, group, saves, dels, nDels, disk>>
    /\ fsUnchanged /\ othersUnchanged

\* loadCacheFromDisk(path) of goroutine i
ScanLoad(i) ==
    /\ m.running
    /\ scans[i].pc = "load"
    /\ LET path == scans[i].path
           file == disk[path]
           dec == file.kind = "record"
           seen == [dec |-> dec,
                    later |-> dec /\ path \in fsEx /\ fsMt[path] > file.ModTime,
                    old |-> dec /\ now - file.ScanTime > cacheTTL,
                    gone |-> path \notin fsEx]
       IN  IF loadCacheFromDisk(file, fsEx, fsMt, path, now)
           THEN scans' = [scans EXCEPT ![i].pc = "ret", ![i].res = file.res,
                                       ![i].src = "disk", ![i].asof = file.asof,
                                       ![i].ld = seen, ![i].retAt = now]
           ELSE scans' = [scans EXCEPT ![i].pc = "do", ![i].ld = seen]
    /\ UNCHANGED <<m, nScans, group, saves, dels, nDels, disk>>
    /\ fsUnchanged /\ othersUnchanged

\* the goroutine is the first one in scanGroup.Do(path): it runs
\* scanPathConcurrent, which reads the tree
ScanLead(i) ==
    LET path == scans[i].path
        r == WalkNow(path)
    IN  /\ group' = [group EXCEPT ![path] = i]
        /\ scans' = [scans EXCEPT ![i].pc = "lead", ![i].res = r.result,
                                  ![i].err = r.err, ![i].src = "walk",
                                  ![i].walk = i, ![i].asof = now]

\* a call for the path is in flight: the goroutine waits for its result
ScanJoin(i) ==
    /\ scans' = [scans EXCEPT ![i].pc = "wait"]
    /\ UNCHANGED group

\* scanGroup.Do(path, ...)
ScanDo(i) ==
    /\ m.running
    /\ scans[i].pc = "do"
    /\ IF group[scans[i].path] = 0 THEN ScanLead(i) ELSE ScanJoin(i)
    /\ UNCHANGED <<m, nScans, saves, dels, nDels, disk>>
    /\ fsUnchanged /\ othersUnchanged

\* the call of goroutine i ends: i and the goroutines waiting for it get its
\* result, and each one that got no error starts its saveCacheToDisk
ScanDoReturn(i) ==
    /\ m.running
    /\ scans[i].pc = "lead"
    /\ LET path == scans[i].path
           got == {j \in 1..nScans :
                     j = i \/ (scans[j].pc = "wait" /\ scans[j].path = path)}
       IN  /\ scans' = [j \in 1..MaxScans |->
                          IF j \in got
                          THEN [scans[j] EXCEPT !.pc = "ret", !.res = scans[i].res,
                                  !.err = scans[i].err, !.src = "walk",
                                  !.walk = scans[i].walk, !.asof = scans[i].asof,
                                  !.retAt = now]
                          ELSE scans[j]]
           /\ group' = [group EXCEPT ![path] = 0]
           /\ saves' = IF scans[i].err THEN saves
                       ELSE saves \cup {[id |-> j, path |-> path, res |-> scans[i].res,
                                         asof |-> scans[i].asof] : j \in got}
    /\ UNCHANGED <<m, nScans, dels, nDels, disk>>
    /\ fsUnchanged /\ othersUnchanged

\* a save that stays to be run again
SaveRunAgain(s) ==
    /\ m.running
    /\ s \in saves
    /\ disk' = [disk EXCEPT ![s.path] =
                  saveCacheToDisk(disk[s.path], fsEx, fsMt, s.path, s.res, now, s.asof)]
    /\ UNCHANGED <<m, scans, nScans, group, saves, dels, nDels>>
    /\ fsUnchanged /\ othersUnchanged

\* go func(p, r) { saveCacheToDisk(p, r) }
SaveRun(s) ==
    /\ m.running
    /\ s \in saves
    /\ disk' = [disk EXCEPT ![s.path] =
                  saveCacheToDisk(disk[s.path], fsEx, fsMt, s.path, s.res, now, s.asof)]
    /\ saves' = saves \ {s}
    /\ UNCHANGED <<m, scans, nScans, group, dels, nDels>>
    /\ fsUnchanged /\ othersUnchanged

\* case scanResultMsg of Update
HandleScanResult(i) ==
    /\ m.running
    /\ scans[i].pc = "ret"
    /\ scans' = [scans EXCEPT ![i] = DoneCmd]
    /\ IF scans[i].err
       THEN m' = [m EXCEPT !.scanning = FALSE]
       ELSE LET r == scans[i].res
                m1 == [m EXCEPT !.scanning = FALSE,
                                !.entries = r.entries,
                                !.largeFiles = r.largeFiles,
                                !.totalSize = r.totalSize,
                                !.selected = clampSelection(m.selected, Len(r.entries)),
                                !.largeSelected =
                                    clampSelection(m.largeSelected, Len(r.largeFiles)),
                                !.asof = scans[i].asof,
                                !.vis = scans[i].afterDel]
            IN  m' = [m1 EXCEPT
                        !.cache = Put(m.cache, m.path, cacheSnapshot(m1)),
                        !.overviewSizeCache =
                            IF r.totalSize > 0
                            THEN Put(m.overviewSizeCache, m.path, r.totalSize)
                            ELSE m.overviewSizeCache]
    /\ UNCHANGED <<nScans, group, saves, dels, nDels, disk>>
    /\ fsUnchanged /\ othersUnchanged

(***************************************************************************)
(* Spec: updateKey (main.go:716-966).  A handler gives the model after the *)
(* key and the command it returns: [m, scan, del], where scan is the path  *)
(* of the scanCmd and del the path of the deletePathCmd (NoPath: none).    *)
(***************************************************************************)
\* the keys (of the aliases, one: right = enter, left = b, k = up, j = down,
\* ctrl+c = q, f = F = o as far as the state goes)
Keys == {"delete", "esc", "q", "enter", "b", "r"}

NoPath == <<"-">>

Ret(mm, scan, del) == [m |-> mm, scan |-> scan, del |-> del]

\* tea.Quit: the program ends and its goroutines with it
Quit(mm) == [mm EXCEPT !.running = FALSE]

\* an index out of range: the Go runtime panics and the program ends
Panic(mm) == [mm EXCEPT !.running = FALSE, !.panicked = TRUE]

\* the path the confirmed delete is started for
confirmedPath(mm) == mm.deleteTarget.path

\* the confirmation branch without the test of the key
keyInConfirmAnyKey(k) ==
    IF m.deleteTarget # NoTarget
    THEN Ret([m EXCEPT !.deleteConfirm = FALSE, !.deleting = TRUE,
                       !.deleteTarget = NoTarget],
             NoPath, confirmedPath(m))
    ELSE Ret([m EXCEPT !.deleteConfirm = FALSE, !.deleteTarget = NoTarget],
             NoPath, NoPath)

\* if m.deleteConfirm { ... }
keyInConfirm(k) ==
    IF k \in {"delete", "backspace"} /\ m.deleteTarget # NoTarget
    THEN Ret([m EXCEPT !.deleteConfirm = FALSE, !.deleting = TRUE,
                       !.deleteTarget = NoTarget],
             NoPath, confirmedPath(m))
    ELSE Ret([m EXCEPT !.deleteConfirm = FALSE, !.deleteTarget = NoTarget],
             NoPath, NoPath)

\* hydrateOverviewEntries: the size of a shortcut comes from
\* m.overviewSizeCache, else from loadOverviewCachedSize (the JSON store,
\* empty here, then the gob record of the path), else it stays -1
overviewSize(mm, path) ==
    IF path \in DOMAIN mm.overviewSizeCache THEN mm.overviewSizeCache[path]
    ELSE IF loadCacheFromDisk(disk[path], fsEx, fsMt, path, now)
         THEN disk[path].res.totalSize
         ELSE -1

hydrateOverviewEntries(mm) ==
    LET es == [i \in 1..Len(createOverviewEntries) |->
                 [createOverviewEntries[i] EXCEPT
                    !.size = overviewSize(mm, createOverviewEntries[i].path)]]
        known == {i \in 1..Len(es) : es[i].size # -1}
    IN  [mm EXCEPT !.entries = es,
                   !.overviewSizeCache =
                       [q \in DOMAIN mm.overviewSizeCache \cup {es[i].path : i \in known} |->
                          overviewSize(mm, q)],
                   !.totalSize = sumKnownEntrySizes(es)]

\* switchToOverviewMode; the measurements scheduleOverviewScans starts are
\* not part of Spec, so an unmeasured shortcut keeps the size -1
switchToOverviewMode(mm) ==
    hydrateOverviewEntries(
        [mm EXCEPT !.isOverview = TRUE, !.path = ROOT, !.scanning = FALSE,
                   !.showLargeFiles = FALSE, !.largeFiles = << >>,
                   !.largeSelected = 0, !.deleteConfirm = FALSE,
                   !.deleteTarget = NoTarget, !.selected = 0,
                   !.asof = 0, !.vis = FALSE])

\* enterSelectedDir
enterSelectedDir ==
    IF Len(m.entries) = 0 THEN Ret(m, NoPath, NoPath)
    ELSE IF m.selected >= Len(m.entries) THEN Ret(Panic(m), NoPath, NoPath)
    ELSE LET sel == m.entries[m.selected + 1]
             m1 == [m EXCEPT
                      !.history = IF m.isOverview THEN m.history
                                  ELSE Append(m.history, snapshotFromModel(m)),
                      !.path = sel.path, !.selected = 0, !.scanning = TRUE,
                      !.isOverview = FALSE, !.vis = FALSE]
         IN  IF ~sel.isDir THEN Ret(m, NoPath, NoPath)
             ELSE IF sel.path \in DOMAIN m.cache /\ ~m.cache[sel.path].dirty
             THEN LET cached == m.cache[sel.path]
                  IN  Ret([m1 EXCEPT
                             !.entries = cached.entries,
                             !.largeFiles = cached.largeFiles,
                             !.totalSize = cached.totalSize,
                             !.selected =
                                 clampSelection(cached.selected, Len(cached.entries)),
                             !.largeSelected =
                                 clampSelection(cached.largeSelected,
                                                Len(cached.largeFiles)),
                             !.scanning = FALSE,
                             !.asof = cached.asof, !.vis = (m.delAt >= 0)],
                          NoPath, NoPath)
             ELSE Ret(m1, sel.path, NoPath)

\* case "b", "left"
keyBack ==
    IF m.showLargeFiles
    THEN Ret([m EXCEPT !.showLargeFiles = FALSE], NoPath, NoPath)
    ELSE IF Len(m.history) = 0
    THEN Ret(IF m.isOverview THEN m ELSE switchToOverviewMode(m), NoPath, NoPath)
    ELSE LET last == m.history[Len(m.history)]
             m1 == [m EXCEPT !.history = SubSeq(m.history, 1, Len(m.history) - 1),
                             !.path = last.path, !.selected = last.selected,
                             !.largeSelected = last.largeSelected,
                             !.isOverview = FALSE]
         IN  IF last.dirty
             THEN Ret([m1 EXCEPT !.scanning = TRUE, !.vis = FALSE], last.path, NoPath)
             ELSE Ret([m1 EXCEPT
                         !.entries = last.entries,
                         !.largeFiles = last.largeFiles,
                         !.totalSize = last.totalSize,
                         !.selected =
                             clampSelection(last.selected, Len(last.entries)),
                         !.largeSelected =
                             clampSelection(last.largeSelected, Len(last.largeFiles)),
                         !.scanning = FALSE,
                         !.asof = last.asof, !.vis = (m.delAt >= 0)],
                      NoPath, NoPath)

\* case "up", "k" and case "down", "j"
keyUp ==
    IF m.showLargeFiles
    THEN [m EXCEPT !.largeSelected = IF @ > 0 THEN @ - 1 ELSE @]
    ELSE [m EXCEPT !.selected = IF Len(m.entries) > 0 /\ @ > 0 THEN @ - 1 ELSE @]

keyDown ==
    IF m.showLargeFiles
    THEN [m EXCEPT !.largeSelected = IF @ < Len(m.largeFiles) - 1 THEN @ + 1 ELSE @]
    ELSE [m EXCEPT !.selected =
                      IF Len(m.entries) > 0 /\ @ < Len(m.entries) - 1 THEN @ + 1 ELSE @]

\* case "o" (and "f"): the selected entry is read and handed to open
keyOpen ==
    IF m.showLargeFiles
    THEN IF Len(m.largeFiles) > 0 /\ m.largeSelected >= Len(m.largeFiles)
         THEN Panic(m) ELSE m
    ELSE IF Len(m.entries) > 0 /\ m.selected >= Len(m.entries)
         THEN Panic(m) ELSE m

\* the entry a delete key asks the confirmation for
selectedTarget(mm) ==
    IF mm.showLargeFiles
    THEN [name |-> mm.largeFiles[mm.largeSelected + 1].name,
          path |-> mm.largeFiles[mm.largeSelected + 1].path,
          size |-> mm.largeFiles[mm.largeSelected + 1].size,
          isDir |-> FALSE]
    ELSE mm.entries[mm.selected + 1]

\* case "delete", "backspace"
keyDelete ==
    IF m.showLargeFiles
    THEN IF Len(m.largeFiles) = 0 THEN m
         ELSE IF m.largeSelected >= Len(m.largeFiles) THEN Panic(m)
         ELSE [m EXCEPT !.deleteConfirm = TRUE, !.deleteTarget = selectedTarget(m)]
    ELSE IF Len(m.entries) > 0 /\ ~m.isOverview
         THEN IF m.selected >= Len(m.entries) THEN Panic(m)
              ELSE [m EXCEPT !.deleteConfirm = TRUE, !.deleteTarget = selectedTarget(m)]
         ELSE m

\* switch msg.String() { ... }
keyNormal(k) ==
    CASE k = "q" -> Ret(Quit(m), NoPath, NoPath)
      [] k = "esc" ->
           Ret(IF m.showLargeFiles THEN [m EXCEPT !.showLargeFiles = FALSE]
               ELSE Quit(m), NoPath, NoPath)
      [] k = "up" -> Ret(keyUp, NoPath, NoPath)
      [] k = "down" -> Ret(keyDown, NoPath, NoPath)
      [] k = "enter" ->
           IF m.showLargeFiles THEN Ret(m, NoPath, NoPath) ELSE enterSelectedDir
      [] k = "b" -> keyBack
      [] k = "r" -> Ret([m EXCEPT !.scanning = TRUE], m.path, NoPath)
      [] k = "l" ->
           Ret([m EXCEPT !.showLargeFiles = ~m.showLargeFiles,
                         !.largeSelected = IF m.showLargeFiles THEN @ ELSE 0],
               NoPath, NoPath)
      [] k = "o" -> Ret(keyOpen, NoPath, NoPath)
      [] k \in {"delete", "backspace"} -> Ret(keyDelete, NoPath, NoPath)

updateKey(k) == IF m.deleteConfirm THEN keyInConfirm(k) ELSE keyNormal(k)

\* the program has ended (tea.Quit or a panic) and its goroutines with it.
\* What the state held no longer matters: one state stands for every
\* program that ended the same way.
Exited(panicked) ==
    /\ m' = [path |-> ROOT, history |-> << >>, entries |-> << >>,
             largeFiles |-> << >>, selected |-> 0, totalSize |-> 0,
             scanning |-> FALSE, showLargeFiles |-> FALSE, isOverview |-> FALSE,
             deleteConfirm |-> FALSE, deleteTarget |-> NoTarget,
             deleting |-> FALSE, cache |-> << >>, largeSelected |-> 0,
             overviewSizeCache |-> << >>,
             running |-> FALSE, panicked |-> panicked, asof |-> 0, vis |-> FALSE,
             delAt |-> -1]
    /\ scans' = [i \in 1..MaxScans |-> IdleCmd]
    /\ nScans' = 0
    /\ group' = [p \in UIPaths |-> 0]
    /\ saves' = {}
    /\ dels' = [i \in 1..MaxDeletes |-> IdleDel]
    /\ nDels' = 0
    /\ disk' = [p \in UIPaths |-> NoFile]
    /\ fsEx' = {}
    /\ fsMt' = [d \in Dirs |-> 0]
    /\ locked' = {}
    /\ now' = 0
        /\ nTouches' = 0

\* the handler returns scanCmd(path)
StartScan(path) ==
    IF path = NoPath THEN UNCHANGED <<scans, nScans>>
    ELSE /\ nScans < MaxScans
         /\ scans' = [scans EXCEPT ![nScans + 1] = NewCmd(path)]
         /\ nScans' = nScans + 1

\* the handler returns deletePathCmd(path, m.deleteCount)
StartDelete(path) ==
    IF path = NoPath THEN UNCHANGED <<dels, nDels>>
    ELSE /\ nDels < MaxDeletes
         /\ dels' = [dels EXCEPT
                       ![nDels + 1] = [IdleDel EXCEPT !.pc = "run", !.path = path]]
         /\ nDels' = nDels + 1

\* case tea.KeyMsg of Update
UpdateKey(k) ==
    /\ m.running
    /\ LET r == updateKey(k)
       IN  IF ~r.m.running THEN Exited(r.m.panicked)
           ELSE /\ Len(r.m.history) <= MaxHistory
                /\ m' = r.m
                /\ StartScan(r.scan)
                /\ StartDelete(r.del)
                /\ UNCHANGED <<group, saves, disk>>
                /\ fsUnchanged
    /\ othersUnchanged

(***************************************************************************)
(* Spec: deletePathCmd, as one step on the tree (SpecDelete takes it one   *)
(* filesystem call at a time), and case deleteProgressMsg of Update.       *)
(***************************************************************************)
\* the files the WalkDir callback removes with os.Remove
removedByWalk(ex, lk, root) == {f \in ex \cap Files : Under(f, root) /\ f \notin lk}

\* what os.RemoveAll(root) cannot remove of the nodes ex: a file whose
\* removal fails, and every directory above it
keptByRemoveAll(ex, lk, root) ==
    {n \in ex : Under(n, root) /\ \E f \in (ex \cap Files) \cap lk : Under(f, n)}

\* the nodes that exist after deletePathWithProgress(root)
treeAfterDelete(ex, lk, root) ==
    {n \in ex : ~Under(n, root)} \cup keptByRemoveAll(ex, lk, root)

\* deletePathWithProgress reports an error: what RemoveAll returns
deleteError(ex, lk, root) == keptByRemoveAll(ex, lk, root) # {}

\* the goroutine of deletePathCmd runs deletePathWithProgress
DeleteRun(k) ==
    /\ m.running
    /\ dels[k].pc = "run"
    /\ LET root == dels[k].path
           after == treeAfterDelete(fsEx, locked, root)
           changed == after # fsEx
           t == IF changed THEN now + 1 ELSE now
       IN  /\ fsEx' = after
           /\ now' = t
           /\ fsMt' = [d \in Dirs |->
                         IF d \in after /\ Children(after, d) # Children(fsEx, d)
                         THEN t ELSE fsMt[d]]
           /\ dels' = [dels EXCEPT
                         ![k].pc = "ret",
                         ![k].count = Cardinality(removedByWalk(fsEx, locked, root)),
                         ![k].err = deleteError(fsEx, locked, root),
                         ![k].at = t]
    /\ UNCHANGED <<m, scans, nScans, group, saves, nDels, disk, locked,
                   nTouches>>
    /\ othersUnchanged

\* the dirty flags after a delete that returned err
dirtyAfterDelete(flag, err) == IF err THEN flag ELSE TRUE

\* case deleteProgressMsg of Update (msg.done is always true)
HandleDeleteDone(k) ==
    /\ m.running
    /\ dels[k].pc = "ret"
    /\ dels' = [dels EXCEPT ![k].pc = "done"]
    /\ LET err == dels[k].err
           m1 == [m EXCEPT
                    !.deleting = FALSE,
                    !.history = [i \in 1..Len(m.history) |->
                                   [m.history[i] EXCEPT
                                      !.dirty = dirtyAfterDelete(@, err)]],
                    !.cache = [q \in DOMAIN m.cache |->
                                 [m.cache[q] EXCEPT !.dirty = dirtyAfterDelete(@, err)]]]
       IN  IF err
           THEN m' = m1 /\ StartScan(NoPath)
           ELSE /\ m' = [m1 EXCEPT !.scanning = TRUE, !.vis = FALSE,
                                   !.delAt = dels[k].at]
                /\ StartScan(m.path)
    /\ UNCHANGED <<group, saves, nDels, disk>>
    /\ fsUnchanged /\ othersUnchanged

\* another process changes directory d (it adds and removes an empty file):
\* the directory's modification time moves to the current time
Touch(d) ==
    /\ m.running
    /\ nTouches < MaxTouches
    /\ d \in fsEx
    /\ now' = now + 1
    /\ fsMt' = [fsMt EXCEPT ![d] = now + 1]
    /\ nTouches' = nTouches + 1
    /\ UNCHANGED <<m, scans, nScans, group, saves, dels, nDels, disk, fsEx,
                   locked>>
    /\ othersUnchanged

\* Spec runs a saveCacheToDisk goroutine as soon as it is started, before
\* the next key or message (SpecCmd lets it run at any later time)
Next ==
    \/ \E s \in saves : SaveRun(s)
    \/ saves = {} /\ \E k \in Keys : UpdateKey(k)
    \/ saves = {} /\ \E i \in 1..MaxScans : ScanLoad(i)
    \/ saves = {} /\ \E i \in 1..MaxScans : ScanDo(i)
    \/ saves = {} /\ \E i \in 1..MaxScans : ScanDoReturn(i)
    \/ saves = {} /\ \E i \in 1..MaxScans : HandleScanResult(i)
    \/ saves = {} /\ \E k \in 1..MaxDeletes : DeleteRun(k)
    \/ saves = {} /\ \E k \in 1..MaxDeletes : HandleDeleteDone(k)

Spec == InitSpec /\ [][Next]_vars

(***************************************************************************)
(* SpecCursor: the cursors of the two lists.  The keys that move a cursor  *)
(* or read the row under it, with the handlers of Spec, over a tree in     *)
(* which a directory that is not the largest of its parent holds two       *)
(* files: /Applications/{x/h.bin, y/{f.bin, g.bin}}.  The walk is taken as *)
(* one step and the user lets a scan return before starting the next.     *)
(* The scan Init starts is scans[0].                                       *)
(***************************************************************************)
DIR_X == <<"Applications", "x">>

DIR_Y == <<"Applications", "y">>

CursorSizes ==
    [n \in {Join(DIR_X, "h.bin"), Join(DIR_Y, "f.bin"), Join(DIR_Y, "g.bin")} |->
       CASE n = Join(DIR_X, "h.bin") -> 300 * MiB
         [] n = Join(DIR_Y, "f.bin") -> 150 * MiB
         [] OTHER -> 120 * MiB]

CursorFiles == DOMAIN CursorSizes

CursorDirs == {ROOT, APPS, DIR_X, DIR_Y}

\* the keys of SpecCursor
CursorKeys == {"down", "enter", "b", "o", "delete"}

RECURSIVE CursorSize(_, _)
\* the size of node n: the files below it
CursorSize(ex, n) ==
    IF n \in CursorFiles THEN CursorSizes[n]
    ELSE SumOver([k \in Children(ex, n) |-> CursorSize(ex, k)], Children(ex, n))

\* scanPathConcurrent(root) over this tree (every file is of at least
\* minLargeFileSize and none is on the skip list)
CursorWalk(ex, root) ==
    IF root \notin ex \/ root \notin CursorDirs
    THEN [result |-> NoResult, err |-> TRUE]
    ELSE LET kids == Children(ex, root)
             es == {dirEntry(k, CursorSize(ex, k), k \in CursorDirs) : k \in kids}
             lf == {fileEntry(f, CursorSizes[f]) :
                       f \in {k \in ex \cap CursorFiles : Under(k, root)}}
         IN  [result |->
                [entries |-> Truncate(CHOOSE s \in SortedDesc(es) : TRUE, maxEntries),
                 largeFiles |-> Truncate(CHOOSE s \in SortedDesc(lf) : TRUE, maxLargeFiles),
                 totalSize |-> CursorSize(ex, root)],
              err |-> FALSE]

InitCursor ==
    /\ fsEx = CursorDirs \cup CursorFiles
    /\ fsMt = [d \in Dirs |-> 1]
    /\ locked = {}
    /\ now = Time0
    /\ disk = [p \in UIPaths |-> NoFile]
    /\ m = newModel
    /\ scans = [i \in 0..MaxScans |->
                  IF i = 0 THEN [IdleCmd EXCEPT !.pc = "load", !.path = APPS]
                  ELSE IdleCmd]
    /\ nScans = 0
    /\ group = [p \in UIPaths |-> 0]
    /\ saves = {}
    /\ dels = [i \in 1..MaxDeletes |-> IdleDel]
    /\ nDels = 0
    /\ nTouches = 0
    /\ DelOff /\ ScanOff /\ LibOff

\* the goroutine of scanCmd i: the walk and its scanResultMsg
CursorScan(i) ==
    /\ m.running
    /\ scans[i].pc = "load"
    /\ LET r == CursorWalk(fsEx, scans[i].path)
       IN  scans' = [scans EXCEPT ![i].pc = "ret", ![i].res = r.result,
                                  ![i].err = r.err, ![i].src = "walk",
                                  ![i].asof = now, ![i].retAt = now]
    /\ UNCHANGED <<m, nScans, group, saves, dels, nDels, disk>>
    /\ fsUnchanged /\ othersUnchanged

\* case tea.KeyMsg of Update, for a user who presses a key that starts a
\* scan only when no scan is running
CursorKey(k) ==
    /\ m.running
    /\ (\E i \in 0..MaxScans : scans[i].pc \in {"load", "ret"})
          => updateKey(k).scan = NoPath
    /\ UpdateKey(k)

NextCursor ==
    \/ \E k \in CursorKeys : CursorKey(k)
    \/ \E i \in 0..MaxScans : CursorScan(i)
    \/ \E i \in 0..MaxScans : HandleScanResult(i)
    \/ \E k \in 1..MaxDeletes : DeleteRun(k)
    \/ \E k \in 1..MaxDeletes : HandleDeleteDone(k)

SpecCursor == InitCursor /\ [][NextCursor]_vars

(***************************************************************************)
(* SpecCmd: scanCmd called by any caller at any time, its goroutines, the  *)
(* cache files and the tree's modification times.                          *)
(***************************************************************************)
\* the paths scanCmd is called for (LIB does not exist)
CmdPaths == {APPS, LIB}

InitCmd ==
    /\ fsEx = Nodes
    /\ fsMt = [d \in Dirs |-> 1]
    /\ locked = {}
    /\ now = Time0
    /\ disk \in {[p \in UIPaths |-> IF p = APPS THEN f ELSE NoFile] :
                   f \in {NoFile, GoodRecord(Time0 - cacheTTL),
                          GoodRecord(Time0 - 1)}}
    /\ m = newModel
    /\ scans = [i \in 1..MaxScans |-> IdleCmd]
    /\ nScans = 0
    /\ group = [p \in UIPaths |-> 0]
    /\ saves = {}
    /\ dels = [i \in 1..MaxDeletes |-> IdleDel]
    /\ nDels = 0
    /\ nTouches = 0
    /\ DelOff /\ ScanOff /\ LibOff

\* a caller runs the command scanCmd(path) returns
Request(path) ==
    /\ m.running
    /\ StartScan(path)
    /\ UNCHANGED <<m, group, saves, dels, nDels, disk>>
    /\ fsUnchanged /\ othersUnchanged

NextCmd ==
    \/ \E p \in CmdPaths : Request(p)
    \/ \E i \in 1..MaxScans : ScanLoad(i)
    \/ \E i \in 1..MaxScans : ScanDo(i)
    \/ \E i \in 1..MaxScans : ScanDoReturn(i)
    \/ \E s \in saves : SaveRun(s)
    \/ \E d \in {APPS, DIR_D} : Touch(d)

SpecCmd == InitCmd /\ [][NextCmd]_vars

(***************************************************************************)
(* SpecDelete: one call of deletePathWithProgress(root, counter)           *)
(* (main.go:2179-2213), one filesystem call at a time, for any path the    *)
(* caller hands over and any files whose removal fails.                    *)
(***************************************************************************)
\* the working directory of the process
DelCwd == APPS

\* a path string: absolute ("/" and the parts) or relative (the parts; no
\* part: the empty string)
AbsPath(parts) == [abs |-> TRUE, parts |-> parts]

RelPath(parts) == [abs |-> FALSE, parts |-> parts]

EmptyPath == RelPath(<< >>)

\* the paths handed to deletePathWithProgress
DelInputs ==
    {EmptyPath, RelPath(<<"d">>), RelPath(<<"d", "big.bin">>),
     AbsPath(APPS), AbsPath(DIR_D), AbsPath(F_C), AbsPath(LIB)}

\* the node the kernel resolves a path string to
Resolve(p) == IF p.abs THEN p.parts ELSE DelCwd \o p.parts

\* os.Lstat(p) succeeds: the empty string names nothing
LstatOk(ex, p) == p # EmptyPath /\ Resolve(p) \in ex

\* the order in which filepath.WalkDir comes to the nodes (lexical, a
\* directory before what it holds)
WalkOrder == <<ROOT, APPS, DIR_D, F_BIG, F_C>>

\* WalkDir of root comes to node n: n exists, lies in root, and every
\* directory from root down to n could be read
Reached(ex, unreadable, root, n) ==
    /\ n \in ex /\ Under(n, root)
    /\ \A a \in unreadable : ~(Under(n, a) /\ n # a /\ Under(a, root))

\* the position of the next node after pos that WalkDir comes to, or
\* Len(WalkOrder) + 1 when there is none
NextPos(ex, unreadable, root, pos) ==
    LET later == {i \in (pos + 1)..Len(WalkOrder) :
                    Reached(ex, unreadable, root, WalkOrder[i])}
    IN  IF later = {} THEN Len(WalkOrder) + 1
        ELSE CHOOSE i \in later : \A j \in later : i <= j

\* os.Remove(f) of the callback succeeds
removeOk(perm, f) == f \notin perm.locked

\* count++ whatever os.Remove returned
countEveryRemove(count, ok) == count + 1

\* count++ after an os.Remove that returned removeErr
countAfterRemove(count, ok) == IF ok THEN count + 1 ELSE count

\* what os.RemoveAll(root) leaves of the nodes ex: the files whose removal
\* fails, what lies in a directory that cannot be read, and every directory
\* above one of these
leftByRemoveAll(ex, perm, root) ==
    LET stuck == {n \in ex :
                    /\ Under(n, root)
                    /\ \/ n \in Files /\ n \in perm.locked
                       \/ \E a \in perm.unreadable : Under(n, a) /\ n # a}
    IN  {n \in ex : Under(n, root) /\ \E x \in stuck : Under(x, n)}

\* the error os.RemoveAll(p) returns: none for the empty string and for a
\* path that does not exist
removeAllFails(ex, perm, p) ==
    /\ p # EmptyPath
    /\ leftByRemoveAll(ex, perm, Resolve(p)) # {}

InitDelete ==
    /\ dEx = Nodes
    /\ dPerm \in [locked : SUBSET Files, unreadable : SUBSET {DIR_D}]
    /\ \E p \in DelInputs :
          dl = [pc |-> "call", root |-> p, pos |-> 0, count |-> 0,
                counter |-> 0, err |-> FALSE]
    /\ UiOff /\ ScanOff /\ LibOff

delOthersUnchanged == UNCHANGED <<uiVars, scanVars, libVars>>

\* filepath.WalkDir starts: os.Lstat(root); when it fails the callback gets
\* the error, returns nil, and WalkDir returns nil
DelLstat ==
    /\ dl.pc = "call"
    /\ dl' = IF LstatOk(dEx, dl.root)
             THEN [dl EXCEPT !.pc = "walk",
                             !.pos = NextPos(dEx, dPerm.unreadable,
                                             Resolve(dl.root), 0)]
             ELSE [dl EXCEPT !.pc = "removeAll"]
    /\ UNCHANGED <<dEx, dPerm>>
    /\ delOthersUnchanged

\* the callback for the node WalkDir has come to: os.Remove for what is no
\* directory, count and counter after a removal that succeeded; a
\* directory is left for later (when it cannot be read the callback gets
\* the error and returns nil)
DelVisit ==
    /\ dl.pc = "walk"
    /\ dl.pos <= Len(WalkOrder)
    /\ LET n == WalkOrder[dl.pos]
           ok == removeOk(dPerm, n)
           ex1 == IF n \in Files /\ ok THEN dEx \ {n} ELSE dEx
           c == IF n \in Files THEN countAfterRemove(dl.count, ok) ELSE dl.count
       IN  /\ dEx' = ex1
           /\ dl' = [dl EXCEPT
                       !.count = c,
                       !.counter = IF n \in Files /\ ok THEN c ELSE @,
                       !.pos = NextPos(ex1, dPerm.unreadable, Resolve(dl.root),
                                       dl.pos)]
    /\ UNCHANGED dPerm
    /\ delOthersUnchanged

\* WalkDir returns nil (the callback never returns an error)
DelWalkEnd ==
    /\ dl.pc = "walk"
    /\ dl.pos > Len(WalkOrder)
    /\ dl' = [dl EXCEPT !.pc = "removeAll"]
    /\ UNCHANGED <<dEx, dPerm>>
    /\ delOthersUnchanged

\* os.RemoveAll(root) and the return of (count, err)
DelRemoveAll ==
    /\ dl.pc = "removeAll"
    /\ LET root == Resolve(dl.root)
       IN  /\ dEx' = IF dl.root = EmptyPath THEN dEx
                     ELSE {n \in dEx : ~Under(n, root)}
                          \cup leftByRemoveAll(dEx, dPerm, root)
           /\ dl' = [dl EXCEPT
                       !.pc = "done",
                       !.err = removeAllFails(dEx, dPerm, dl.root)]
    /\ UNCHANGED dPerm
    /\ delOthersUnchanged

NextDelete == DelLstat \/ DelVisit \/ DelWalkEnd \/ DelRemoveAll

SpecDelete == InitDelete /\ [][NextDelete]_vars

(***************************************************************************)
(* SpecScan: one call of scanPathConcurrent(root) (main.go:1271-1436),     *)
(* one child and one goroutine step at a time, on a directory with many    *)
(* files, a subdirectory and a folded subdirectory.  root is not "/";      *)
(* findLargeFilesWithSpotlight finds nothing (no mdfind).                  *)
(***************************************************************************)
\* runtime.NumCPU() of the machine
NumCPU == 4

\* the semaphore's size for a directory of n children
maxWorkers(n) ==
    LET w0 == NumCPU * 4
        w1 == IF w0 < 16 THEN 16 ELSE w0
        w2 == IF w1 > 128 THEN 128 ELSE w1
        w3 == IF w2 > n THEN n ELSE w2
    IN  IF w3 < 1 THEN 1 ELSE w3

\* how the files of the directory are laid out: all alike, each longer
\* than the one before, or sparse (each longer, all taking 8 blocks)
Layouts == {"same", "rising", "sparse"}

\* the i-th file of the directory (ReadDir gives the children by name: the
\* files, named by numbers, then d, then node_modules)
WideFile(layout, i) ==
    [name |-> i, isDir |-> FALSE, folded |-> FALSE,
     logical |-> IF layout = "same" THEN 4096 ELSE i * 4096,
     blocks |-> IF layout = "rising" THEN i * 8 ELSE 8,
     du |-> 0, walked |-> 0]

\* the subdirectory d: what /Applications/d holds
PlainDir ==
    [name |-> "d", isDir |-> TRUE, folded |-> shouldFoldDirWithPath("d", DIR_D),
     logical |-> 0, blocks |-> 0, du |-> 0,
     walked |-> calculateDirSizeConcurrent(Nodes, DIR_D)]

\* the subdirectory node_modules, du answering du for it (0: du fails)
FoldedDir(du) ==
    [name |-> "node_modules", isDir |-> TRUE,
     folded |-> shouldFoldDirWithPath("node_modules", Join(APPS, "node_modules")),
     logical |-> 0, blocks |-> 0, du |-> du, walked |-> 3 * MiB]

\* os.ReadDir(root) of a directory of n files
WideDir(layout, n, plain, folded) ==
    [i \in 1..n |-> WideFile(layout, i)] \o plain \o folded

\* the size a goroutine measures for the directory kid
measuredDirSize(kid) ==
    IF kid.folded
    THEN IF kid.du <= 0 THEN kid.walked ELSE kid.du
    ELSE kid.walked

\* the entry sent to entryChan
kidEntry(kid, size) ==
    [name |-> kid.name, path |-> Join(APPS, kid.name), size |-> size,
     isDir |-> kid.isDir]

\* no path taken to lie in a folded directory
isInNoFoldedDir(path) == FALSE

\* isInFoldedDir(path): a component of the path is a name of foldDirs
isInFoldedDir(path) == \E i \in 1..Len(path) : path[i] \in foldDirs

\* findLargeFilesWithSpotlight, on the lines mdfind printed
findLargeFilesWithSpotlight(tree, bad, lines) ==
    LET keep == {p \in lines :
                   /\ ~shouldSkipFileForLargeTracking(p)
                   /\ ~isInFoldedDir(p)
                   /\ p \notin bad            \* os.Lstat
                   /\ ~tree[p].isDir}
        files == {fileEntry(p, actualFileSize(tree[p].logical, tree[p].blocks)) :
                     p \in keep}
    IN  Truncate(CHOOSE s \in SortedDesc(files) : TRUE, maxLargeFiles)

\* the entry put last, whatever its size
InsertLast(e, s) == Append(s, e)

RECURSIVE InsertDesc(_, _)
\* e put into the sequence s, which is sorted largest first, after the
\* entries that are at least as large
InsertDesc(e, s) ==
    IF s = << >> THEN <<e>>
    ELSE IF Head(s).size >= e.size THEN <<Head(s)>> \o InsertDesc(e, Tail(s))
    ELSE <<e>> \o s

RECURSIVE SortDesc(_)
\* sort.Slice(entries, size descending); sort.Slice is not stable, and of
\* the orders it may leave equal sizes in this is the one by arrival
SortDesc(s) ==
    IF s = << >> THEN << >>
    ELSE InsertDesc(s[Len(s)], SortDesc(SubSeq(s, 1, Len(s) - 1)))

InitScan ==
    /\ \E layout \in Layouts, n \in 0..MaxChildren,
          plain \in {<< >>, <<PlainDir>>},
          folded \in {<< >>, <<FoldedDir(0)>>, <<FoldedDir(2 * MiB)>>} :
          sc = [pc |-> "loop",
                children |-> WideDir(layout, n, plain, folded),
                i |-> 1, total |-> 0, entries |-> << >>, largeFiles |-> {},
                waiting |-> {}, running |-> {},
                result |-> NoResult]
    /\ UiOff /\ DelOff /\ LibOff

scanOthersUnchanged == UNCHANGED <<uiVars, delVars, libVars>>

\* for _, child := range children: a directory gets its goroutine, a file
\* is measured and sent to entryChan by the loop itself
WalkChild ==
    /\ sc.pc = "loop"
    /\ sc.i <= Len(sc.children)
    /\ LET kid == sc.children[sc.i]
           size == actualFileSize(kid.logical, kid.blocks)
       IN  sc' = IF kid.isDir
                 THEN [sc EXCEPT !.i = @ + 1, !.waiting = @ \cup {sc.i}]
                 ELSE [sc EXCEPT !.i = @ + 1,
                                 !.total = @ + size,
                                 !.entries = Append(@, kidEntry(kid, size))]
    /\ scanOthersUnchanged

\* sem <- struct{}{} of the goroutine of child k
WorkerAcquire(k) ==
    /\ k \in sc.waiting
    /\ Cardinality(sc.running) < maxWorkers(Len(sc.children))
    /\ sc' = [sc EXCEPT !.waiting = @ \ {k}, !.running = @ \cup {k}]
    /\ scanOthersUnchanged

\* the goroutine of child k measures the directory, adds the size to total,
\* sends the entry and gives the slot back
WorkerFinish(k) ==
    /\ k \in sc.running
    /\ LET kid == sc.children[k]
           size == measuredDirSize(kid)
       IN  sc' = [sc EXCEPT
                    !.running = @ \ {k},
                    !.total = @ + size,
                    !.entries = Append(@, kidEntry(kid, size)),
                    !.largeFiles = IF kid.folded THEN @
                                   ELSE @ \cup LargeFilesBelow(Nodes, DIR_D)]
    /\ scanOthersUnchanged

\* wg.Wait(), the channels closed, the sorts and cuts, the files of mdfind
\* when it printed any, the return
WalkReturn ==
    /\ sc.pc = "loop"
    /\ sc.i > Len(sc.children)
    /\ sc.waiting = {} /\ sc.running = {}
    /\ LET tree == [p \in {F_BIG} |->
                      [isDir |-> FALSE, logical |-> FileSize(p),
                       blocks |-> FileBlocks(p)]]
           \* the files of 100 MiB or more: big.bin of the subdirectory d
           indexed == IF \E k \in 1..Len(sc.children) :
                            sc.children[k].isDir /\ ~sc.children[k].folded
                      THEN {F_BIG} ELSE {}
       IN  \E lines \in SUBSET indexed :
              LET spotlightFiles == findLargeFilesWithSpotlight(tree, {}, lines)
              IN  sc' = [sc EXCEPT
                           !.pc = "done",
                           !.result =
                             [entries |-> Truncate(SortDesc(sc.entries), maxEntries),
                              largeFiles |->
                                 IF Len(spotlightFiles) > 0 THEN spotlightFiles
                                 ELSE Truncate(CHOOSE s \in SortedDesc(sc.largeFiles) : TRUE,
                                               maxLargeFiles),
                              totalSize |-> sc.total]]
    /\ scanOthersUnchanged

NextScan ==
    \/ WalkChild
    \/ \E k \in 1..(MaxChildren + 2) : WorkerAcquire(k)
    \/ \E k \in 1..(MaxChildren + 2) : WorkerFinish(k)
    \/ WalkReturn

SpecScan == InitScan /\ [][NextScan]_vars

(***************************************************************************)
(* SpecWalk: scanPathConcurrent with its goroutines, down the tree.  The   *)
(* walk is one of four scenes; sc is the call.                             *)
(*   example  /t with a.txt, b.txt and a folded node_modules               *)
(*   deep     /t with files, an expanded d that holds an expanded a, a     *)
(*            file and a folded node_modules, and a folded vendor          *)
(*   slash    / with tmp (a system directory, and a folded name) and a     *)
(*            folded vendor                                                *)
(*   wide     /t with 30 files and a folded node_modules smaller than each *)
(* A node is [isDir, kids, logical, blocks, du]: kids are the names        *)
(* os.ReadDir gives, in its order (by name); du is what du -sk reports for *)
(* the directory, in bytes.                                                *)
(***************************************************************************)
WalkScenes == {"example", "deep", "slash", "wide"}

\* the names of the files of the wide scene
WideNames ==
    <<"f01", "f02", "f03", "f04", "f05", "f06", "f07", "f08", "f09", "f10",
      "f11", "f12", "f13", "f14", "f15", "f16", "f17", "f18", "f19", "f20",
      "f21", "f22", "f23", "f24", "f25", "f26", "f27", "f28", "f29", "f30">>

WalkRoot(scene) == IF scene = "slash" THEN << >> ELSE <<"t">>

WalkTree(scene) ==
    LET Dir(kids, du) ==
            [isDir |-> TRUE, kids |-> kids, logical |-> 0, blocks |-> 0, du |-> du]
        File(n) ==
            [isDir |-> FALSE, kids |-> << >>, logical |-> n, blocks |-> n \div 512,
             du |-> 0]
        Sparse(n, b) == [File(n) EXCEPT !.blocks = b]
    IN  CASE scene = "example" ->
               (<<"t">> :> Dir(<<"a.txt", "b.txt", "node_modules">>, 0))
            @@ (<<"t", "a.txt">> :> File(10 * MiB))
            @@ (<<"t", "b.txt">> :> File(200 * MiB))
            @@ (<<"t", "node_modules">> :>
                    Dir(<<"m1", "m2", "m3", "m4", "m5", "m6">>, 500 * MiB))
            @@ [p \in {<<"t", "node_modules", n>> : n \in {"m1", "m2", "m3", "m4", "m5"}}
                  |-> File(90 * MiB)]
            @@ (<<"t", "node_modules", "m6">> :> File(50 * MiB))
          [] scene = "deep" ->
               (<<"t">> :> Dir(<<"big.bin", "c.bin", "d", "vendor">>, 0))
            @@ (<<"t", "big.bin">> :> File(150 * MiB))
            @@ (<<"t", "c.bin">> :> Sparse(200 * MiB, 8))
            @@ (<<"t", "d">> :> Dir(<<"a", "b.txt", "node_modules">>, 0))
            @@ (<<"t", "d", "a">> :> Dir(<<"big.bin">>, 0))
            @@ (<<"t", "d", "a", "big.bin">> :> File(120 * MiB))
            @@ (<<"t", "d", "b.txt">> :> File(200 * MiB))
            @@ (<<"t", "d", "node_modules">> :> Dir(<<"big.bin">>, 300 * MiB))
            @@ (<<"t", "d", "node_modules", "big.bin">> :> File(300 * MiB))
            @@ (<<"t", "vendor">> :> Dir(<<"big.bin">>, 130 * MiB))
            @@ (<<"t", "vendor", "big.bin">> :> File(130 * MiB))
          [] scene = "slash" ->
               (<< >> :> Dir(<<"tmp", "vendor">>, 0))
            @@ (<<"tmp">> :> Dir(<<"big.bin">>, 120 * MiB))
            @@ (<<"tmp", "big.bin">> :> File(120 * MiB))
            @@ (<<"vendor">> :> Dir(<<"big.bin">>, 130 * MiB))
            @@ (<<"vendor", "big.bin">> :> File(130 * MiB))
          [] scene = "wide" ->
               (<<"t">> :> Dir(WideNames \o <<"node_modules">>, 0))
            @@ [p \in {<<"t", WideNames[i]>> : i \in 1..Len(WideNames)} |-> File(MiB)]
            @@ (<<"t", "node_modules">> :> Dir(<<"c.bin">>, 4096))
            @@ (<<"t", "node_modules", "c.bin">> :> File(4096))

\* the paths os.ReadDir(d) gives, in its order
KidPaths(tree, d) == [i \in 1..Len(tree[d].kids) |-> Join(d, tree[d].kids[i])]

RECURSIVE fastWalk(_, _, _)
\* calculateDirSizeFast(p): what filepath.WalkDir below p adds up, as the
\* bytes, the files and the directories it counts.  A directory it cannot
\* read is counted and not entered; a file it cannot stat is passed over.
fastWalk(tree, bad, p) ==
    LET Zero == [size |-> 0, files |-> 0, dirs |-> 0]
        Plus(x, y) == [size |-> x.size + y.size, files |-> x.files + y.files,
                       dirs |-> x.dirs + y.dirs]
        kids == KidPaths(tree, p)
        below[i \in 0..Len(kids)] ==
            IF i = 0 THEN Zero ELSE Plus(below[i - 1], fastWalk(tree, bad, kids[i]))
    IN  IF ~tree[p].isDir
        THEN IF p \in bad THEN Zero
             ELSE [size |-> actualFileSize(tree[p].logical, tree[p].blocks),
                   files |-> 1, dirs |-> 0]
        ELSE IF p \in bad THEN [Zero EXCEPT !.dirs = 1]
        ELSE Plus([Zero EXCEPT !.dirs = 1], below[Len(kids)])

\* the semaphore's size in calculateDirSizeConcurrent
maxConcurrent == IF NumCPU * 2 > 32 THEN 32 ELSE NumCPU * 2

\* the external tools a scan runs and the deadline each is run under, in
\* seconds; 0: none (exec.Command, not exec.CommandContext)
toolDeadline(tool) ==
    CASE tool = "du" -> 60
      [] tool = "mdls" -> 5
      [] tool = "mdfind" -> 0

\* the goroutine of a directory (pc: none, sem, run, list, loop, add, done)
\* with, for an expanded directory, its call of calculateDirSizeConcurrent:
\* i the child the loop is at, total the variable, tmp what total += size
\* has read, size what the goroutine has got for its directory.  Ghost:
\* due, what was added to total so far.
NoTask ==
    [pc |-> "none", holds |-> FALSE, i |-> 1, total |-> 0, tmp |-> 0, size |-> 0,
     due |-> 0]

\* the nodes of a scene whose listing (a directory) or stat (a file) may fail
WalkFaulty(scene) ==
    IF scene = "wide" THEN {<<"t">>, <<"t", "f30">>, <<"t", "node_modules">>}
    ELSE DOMAIN WalkTree(scene)

InitWalk ==
    /\ \E scene \in WalkScenes :
         \E bad \in {S \in SUBSET WalkFaulty(scene) : Cardinality(S) <= MaxFaults} :
            sc = [pc |-> "start", scene |-> scene, bad |-> bad, i |-> 1,
                  total |-> 0, entries |-> << >>, large |-> {},
                  t |-> [p \in {q \in DOMAIN WalkTree(scene) :
                                  WalkTree(scene)[q].isDir /\ q # WalkRoot(scene)}
                           |-> NoTask],
                  files |-> 0, dirs |-> 0, bytes |-> 0, enters |-> 0,
                  result |-> NoResult, err |-> FALSE]
    /\ UiOff /\ DelOff /\ LibOff

\* a listing of root that is taken to have succeeded
RootListNoError ==
    /\ sc.pc = "start"
    /\ sc' = [sc EXCEPT !.pc = "loop"]
    /\ scanOthersUnchanged

\* children, err := os.ReadDir(root)
RootList ==
    /\ sc.pc = "start"
    /\ sc' = IF WalkRoot(sc.scene) \in sc.bad
             THEN [sc EXCEPT !.pc = "done", !.err = TRUE]
             ELSE [sc EXCEPT !.pc = "loop"]
    /\ scanOthersUnchanged

\* one turn of for _, child := range children
RootLoop ==
    /\ sc.pc = "loop"
    /\ LET tree == WalkTree(sc.scene)
           root == WalkRoot(sc.scene)
           kids == KidPaths(tree, root)
           k == kids[sc.i]
           size == actualFileSize(tree[k].logical, tree[k].blocks)
       IN  /\ sc.i <= Len(kids)
           /\ sc' =
                IF tree[k].isDir
                THEN IF root = << >> /\ Base(k) \in skipSystemDirs
                     THEN [sc EXCEPT !.i = @ + 1]
                     ELSE [sc EXCEPT !.i = @ + 1, !.t[k].pc = "sem"]
                ELSE IF k \in sc.bad          \* child.Info() fails
                     THEN [sc EXCEPT !.i = @ + 1]
                     ELSE [sc EXCEPT
                             !.i = @ + 1,
                             !.total = @ + size,
                             !.files = @ + 1,
                             !.bytes = @ + size,
                             !.entries = Append(@, dirEntry(k, size, FALSE)),
                             !.large =
                                IF ~shouldSkipFileForLargeTracking(k)
                                   /\ size >= minLargeFileSize
                                THEN @ \cup {fileEntry(k, size)} ELSE @]
    /\ scanOthersUnchanged

\* sem <- struct{}{}: of scanPathConcurrent's pool for a child of root, of
\* the pool of the parent's call for a directory further down
TaskAcquire(p) ==
    /\ sc.pc = "loop"
    /\ p \in DOMAIN sc.t
    /\ sc.t[p].pc = "sem"
    /\ LET tree == WalkTree(sc.scene)
           top == Parent(p) = WalkRoot(sc.scene)
           held == Cardinality({q \in DOMAIN sc.t :
                                  Parent(q) = Parent(p) /\ sc.t[q].holds})
           pool == IF top THEN maxWorkers(Len(tree[Parent(p)].kids))
                   ELSE maxConcurrent
       IN  /\ held < pool
           /\ sc' = [sc EXCEPT
                       !.t[p].holds = TRUE,
                       !.t[p].pc = IF shouldFoldDirWithPath(Base(p), p)
                                   THEN "run" ELSE "list"]
    /\ scanOthersUnchanged

\* the goroutine of a folded directory: du, for a child of root the walk
\* when du gave nothing, the sums, the entry, the slot given back
FoldedMeasure(p) ==
    /\ sc.pc = "loop"
    /\ p \in DOMAIN sc.t
    /\ sc.t[p].pc = "run"
    /\ \E ok \in BOOLEAN :
         LET tree == WalkTree(sc.scene)
             top == Parent(p) = WalkRoot(sc.scene)
             du == IF ok /\ p \notin sc.bad THEN tree[p].du ELSE 0
             fw == fastWalk(tree, sc.bad, p)
             size == IF du <= 0 THEN fw.size ELSE du
             ended == [sc EXCEPT !.t[p].pc = "done", !.t[p].holds = FALSE,
                                 !.t[p].size = IF top THEN size ELSE du]
         IN  sc' =
               IF top
               THEN [ended EXCEPT
                       !.total = @ + size,
                       !.files = IF du <= 0 THEN @ + fw.files ELSE @,
                       !.bytes = IF du <= 0 THEN @ + fw.size ELSE @,
                       !.dirs = (IF du <= 0 THEN @ + fw.dirs ELSE @) + 1,
                       !.entries = Append(@, dirEntry(p, size, TRUE))]
               ELSE IF du > 0
               THEN [ended EXCEPT
                       !.t[Parent(p)].total = @ + du,
                       !.t[Parent(p)].due = @ + du,
                       !.bytes = @ + du,
                       !.dirs = @ + 1]
               ELSE ended
    /\ scanOthersUnchanged

\* children, err := os.ReadDir(root) of calculateDirSizeConcurrent
DirList(p) ==
    /\ sc.pc = "loop"
    /\ p \in DOMAIN sc.t
    /\ sc.t[p].pc = "list"
    /\ sc' = [sc EXCEPT
                !.t[p].pc = "loop",
                !.t[p].i = IF p \in sc.bad
                           THEN Len(WalkTree(sc.scene)[p].kids) + 1 ELSE 1]
    /\ scanOthersUnchanged

\* one turn of the loop of calculateDirSizeConcurrent: a goroutine for a
\* directory; for a file the stat and the read of total += size
DirLoop(p) ==
    /\ sc.pc = "loop"
    /\ p \in DOMAIN sc.t
    /\ sc.t[p].pc = "loop"
    /\ LET tree == WalkTree(sc.scene)
           kids == KidPaths(tree, p)
           k == kids[sc.t[p].i]
       IN  /\ sc.t[p].i <= Len(kids)
           /\ sc' =
                IF tree[k].isDir
                THEN [sc EXCEPT
                        !.t[p].i = @ + 1,
                        !.t[k].pc = IF shouldFoldDirWithPath(Base(k), k)
                                    THEN "run" ELSE "sem"]
                ELSE IF k \in sc.bad
                     THEN [sc EXCEPT !.t[p].i = @ + 1]
                     ELSE [sc EXCEPT !.t[p].pc = "add", !.t[p].tmp = sc.t[p].total]
    /\ scanOthersUnchanged

\* the write of total += size, the counters, the large file
DirAdd(p) ==
    /\ sc.pc = "loop"
    /\ p \in DOMAIN sc.t
    /\ sc.t[p].pc = "add"
    /\ LET tree == WalkTree(sc.scene)
           k == KidPaths(tree, p)[sc.t[p].i]
           size == actualFileSize(tree[k].logical, tree[k].blocks)
       IN  sc' = [sc EXCEPT
                    !.t[p].pc = "loop",
                    !.t[p].i = @ + 1,
                    !.t[p].total = sc.t[p].tmp + size,
                    !.t[p].due = @ + size,
                    !.files = @ + 1,
                    !.bytes = @ + size,
                    !.large = IF ~shouldSkipFileForLargeTracking(k)
                                 /\ size >= minLargeFileSize
                              THEN @ \cup {fileEntry(k, size)} ELSE @]
    /\ scanOthersUnchanged

\* wg.Wait() and return total of calculateDirSizeConcurrent, and the rest
\* of the goroutine that called it
DirReturn(p) ==
    /\ sc.pc = "loop"
    /\ p \in DOMAIN sc.t
    /\ sc.t[p].pc = "loop"
    /\ LET tree == WalkTree(sc.scene)
           top == Parent(p) = WalkRoot(sc.scene)
           size == sc.t[p].total
           ended == [sc EXCEPT !.t[p].pc = "done", !.t[p].holds = FALSE,
                               !.t[p].size = size, !.dirs = @ + 1]
       IN  /\ sc.t[p].i > Len(tree[p].kids)
           /\ \A q \in DOMAIN sc.t :
                 Parent(q) = p => sc.t[q].pc \in {"none", "done"}
           /\ sc' = IF top
                    THEN [ended EXCEPT
                            !.total = @ + size,
                            !.entries = Append(@, dirEntry(p, size, TRUE))]
                    ELSE [ended EXCEPT
                            !.t[Parent(p)].total = @ + size,
                            !.t[Parent(p)].due = @ + size]
    /\ scanOthersUnchanged

\* wg.Wait(), the channels closed, the entries sorted and cut, mdfind run
RootJoin ==
    /\ sc.pc = "loop"
    /\ sc.i > Len(WalkTree(sc.scene)[WalkRoot(sc.scene)].kids)
    /\ \A q \in DOMAIN sc.t :
          Parent(q) = WalkRoot(sc.scene) => sc.t[q].pc \in {"none", "done"}
    /\ sc' = [sc EXCEPT
                !.pc = "spotlight",
                !.result.entries = Truncate(SortDesc(sc.entries), maxEntries)]
    /\ scanOthersUnchanged

\* mdfind has printed lines (none when it failed): its files when there
\* are any, else those of the walk, sorted and cut; the return
RootSpotlight ==
    /\ sc.pc = "spotlight"
    /\ LET tree == WalkTree(sc.scene)
           indexed == {p \in DOMAIN tree :
                         ~tree[p].isDir /\ tree[p].logical >= minLargeFileSize}
       IN  \E lines \in SUBSET indexed :
              LET spotlightFiles == findLargeFilesWithSpotlight(tree, sc.bad, lines)
              IN  sc' = [sc EXCEPT
                           !.pc = "done",
                           !.result.largeFiles =
                               IF Len(spotlightFiles) > 0 THEN spotlightFiles
                               ELSE Truncate(CHOOSE s \in SortedDesc(sc.large) : TRUE,
                                             maxLargeFiles),
                           !.result.totalSize = sc.total]
    /\ scanOthersUnchanged

\* enterSelectedDir while the walk runs, what it does to the walk: the
\* counters, which every scan of the model shares, are set to 0.  (Update
\* takes keys while m.scanning, and m.entries keeps the list shown before.)
enterSelectedDirMeanwhile ==
    /\ sc.pc \in {"loop", "spotlight"}
    /\ sc.enters < MaxEnters
    /\ sc' = [sc EXCEPT !.files = 0, !.dirs = 0, !.bytes = 0, !.enters = @ + 1]
    /\ scanOthersUnchanged

NextWalk ==
    \/ RootList
    \/ RootLoop
    \/ \E p \in DOMAIN sc.t : TaskAcquire(p)
    \/ \E p \in DOMAIN sc.t : FoldedMeasure(p)
    \/ \E p \in DOMAIN sc.t : DirList(p)
    \/ \E p \in DOMAIN sc.t : DirLoop(p)
    \/ \E p \in DOMAIN sc.t : DirAdd(p)
    \/ \E p \in DOMAIN sc.t : DirReturn(p)
    \/ RootJoin
    \/ RootSpotlight
    \/ enterSelectedDirMeanwhile

SpecWalk == InitWalk /\ [][NextWalk]_vars

(***************************************************************************)
(* SpecJoin: what the goroutines of scanPathConcurrent and of              *)
(* calculateDirSizeConcurrent wait for: the slots of the pools, room in    *)
(* the buffers of entryChan and largeFileChan, the two WaitGroups.  Sizes  *)
(* are left out, and goroutines that are alike are counted.  The root has, *)
(* in the order of os.ReadDir, leaves (expanded directories that hold one  *)
(* file of 100 MiB or more), at most one parent (an expanded directory of  *)
(* such leaves) and files of 100 MiB or more.                              *)
(*   files   one file more than largeFileChan buffers                      *)
(*   dirs    one leaf more than the pool of scanPathConcurrent has slots   *)
(*   nested  a leaf, a file and a parent with one leaf more than the pool  *)
(*           of calculateDirSizeConcurrent has slots                       *)
(***************************************************************************)
JoinScenes == {"files", "dirs", "nested"}

\* make(chan fileEntry, maxLargeFiles*2)
largeFileChanCap == maxLargeFiles * 2

JoinShape(scene) ==
    CASE scene = "files" ->
           [leaves |-> 0, parents |-> 0, subdirs |-> 0, files |-> largeFileChanCap + 1]
      [] scene = "dirs" ->
           [leaves |-> NumCPU * 4 + 1, parents |-> 0, subdirs |-> 0, files |-> 0]
      [] scene = "nested" ->
           [leaves |-> 1, parents |-> 1, subdirs |-> maxConcurrent + 1, files |-> 1]

\* len(children) of root
JoinChildren(scene) ==
    JoinShape(scene).leaves + JoinShape(scene).parents + JoinShape(scene).files

\* chan: the files in the buffer of largeFileChan; got: those its
\* collector has received; ech: the entries sent on entryChan, whose
\* buffer of len(children) has room as long as fewer have been sent,
\* whatever its collector has received.
\* goroutines of leaves by where they are: before sem <- struct{}{}, before
\* the send of their file on largeFileChan, before their return; ended
NoLeaves == [sem |-> 0, file |-> 0, ret |-> 0, done |-> 0]

InitJoin ==
    /\ \E scene \in JoinScenes :
         sc = [pc |-> "loop", scene |-> scene, i |-> 1,
               chan |-> 0, got |-> 0, ech |-> 0,
               top |-> NoLeaves, sub |-> NoLeaves,
               par |-> [pc |-> "none", j |-> 0]]
    /\ UiOff /\ DelOff /\ LibOff

\* the slots of scanPathConcurrent's pool that are taken
JoinHeld == sc.top.file + sc.top.ret + (IF sc.par.pc \in {"loop", "ret"} THEN 1 ELSE 0)

\* one turn of for _, child := range children of scanPathConcurrent: a
\* goroutine for a directory; for a file the sends on entryChan and on
\* largeFileChan, each of which waits while the buffer is full
JoinRootLoop ==
    /\ sc.pc = "loop"
    /\ sc.i <= JoinChildren(sc.scene)
    /\ LET shape == JoinShape(sc.scene)
       IN  IF sc.i <= shape.leaves
           THEN sc' = [sc EXCEPT !.i = @ + 1, !.top.sem = @ + 1]
           ELSE IF sc.i <= shape.leaves + shape.parents
           THEN sc' = [sc EXCEPT !.i = @ + 1, !.par.pc = "sem"]
           ELSE /\ sc.ech < JoinChildren(sc.scene)
                /\ sc.chan < largeFileChanCap
                /\ sc' = [sc EXCEPT !.i = @ + 1, !.ech = @ + 1, !.chan = @ + 1]
    /\ scanOthersUnchanged

\* sem <- struct{}{} of the goroutine of a leaf below root
TopAcquire ==
    /\ sc.top.sem > 0
    /\ JoinHeld < maxWorkers(JoinChildren(sc.scene))
    /\ sc' = [sc EXCEPT !.top.sem = @ - 1, !.top.file = @ + 1]
    /\ scanOthersUnchanged

\* calculateDirSizeConcurrent of a leaf below root: the send of its file
TopSend ==
    /\ sc.top.file > 0
    /\ sc.chan < largeFileChanCap
    /\ sc' = [sc EXCEPT !.top.file = @ - 1, !.top.ret = @ + 1, !.chan = @ + 1]
    /\ scanOthersUnchanged

\* the call returns; the entry is sent, the slot given back, wg.Done()
TopReturn ==
    /\ sc.top.ret > 0
    /\ sc.ech < JoinChildren(sc.scene)
    /\ sc' = [sc EXCEPT !.top.ret = @ - 1, !.top.done = @ + 1, !.ech = @ + 1]
    /\ scanOthersUnchanged

\* sem <- struct{}{} of the goroutine of the parent
ParentAcquire ==
    /\ sc.par.pc = "sem"
    /\ JoinHeld < maxWorkers(JoinChildren(sc.scene))
    /\ sc' = [sc EXCEPT !.par.pc = "loop"]
    /\ scanOthersUnchanged

\* one turn of the loop of calculateDirSizeConcurrent of the parent: a
\* goroutine for a subdirectory
ParentLoop ==
    /\ sc.par.pc = "loop"
    /\ sc.par.j < JoinShape(sc.scene).subdirs
    /\ sc' = [sc EXCEPT !.par.j = @ + 1, !.sub.sem = @ + 1]
    /\ scanOthersUnchanged

\* sem <- struct{}{} of the goroutine of a subdirectory, on the pool of the
\* parent's call
SubAcquire ==
    /\ sc.sub.sem > 0
    /\ sc.sub.file + sc.sub.ret < maxConcurrent
    /\ sc' = [sc EXCEPT !.sub.sem = @ - 1, !.sub.file = @ + 1]
    /\ scanOthersUnchanged

\* calculateDirSizeConcurrent of a subdirectory: the send of its file
SubSend ==
    /\ sc.sub.file > 0
    /\ sc.chan < largeFileChanCap
    /\ sc' = [sc EXCEPT !.sub.file = @ - 1, !.sub.ret = @ + 1, !.chan = @ + 1]
    /\ scanOthersUnchanged

\* the call returns; the size is added, the slot given back, wg.Done()
SubReturn ==
    /\ sc.sub.ret > 0
    /\ sc' = [sc EXCEPT !.sub.ret = @ - 1, !.sub.done = @ + 1]
    /\ scanOthersUnchanged

\* wg.Wait() and return of the parent's call
ParentWait ==
    /\ sc.par.pc = "loop"
    /\ sc.par.j = JoinShape(sc.scene).subdirs
    /\ sc.sub.done = sc.par.j
    /\ sc' = [sc EXCEPT !.par.pc = "ret"]
    /\ scanOthersUnchanged

\* the parent's entry is sent, the slot given back, wg.Done()
ParentReturn ==
    /\ sc.par.pc = "ret"
    /\ sc.ech < JoinChildren(sc.scene)
    /\ sc' = [sc EXCEPT !.par.pc = "done", !.ech = @ + 1]
    /\ scanOthersUnchanged

\* a collector that has stopped receiving
CollectLargeNever ==
    /\ FALSE
    /\ UNCHANGED vars

\* for file := range largeFileChan
CollectLarge ==
    /\ sc.pc = "loop"
    /\ sc.chan > 0
    /\ sc' = [sc EXCEPT !.chan = @ - 1, !.got = @ + 1]
    /\ scanOthersUnchanged

\* wg.Wait(), the channels closed, collectorWg.Wait(), and the rest of
\* scanPathConcurrent, mdfind having returned
JoinReturn ==
    /\ sc.pc = "loop"
    /\ sc.i > JoinChildren(sc.scene)
    /\ sc.top.done = JoinShape(sc.scene).leaves
    /\ sc.par.pc = (IF JoinShape(sc.scene).parents = 1 THEN "done" ELSE "none")
    /\ sc.chan = 0
    /\ sc' = [sc EXCEPT !.pc = "done"]
    /\ scanOthersUnchanged

NextJoin ==
    \/ JoinRootLoop
    \/ TopAcquire
    \/ TopSend
    \/ TopReturn
    \/ ParentAcquire
    \/ ParentLoop
    \/ SubAcquire
    \/ SubSend
    \/ SubReturn
    \/ ParentWait
    \/ ParentReturn
    \/ CollectLarge
    \/ JoinReturn

SpecJoin == InitJoin /\ [][NextJoin]_vars

\* every goroutine that can take a step takes one in the end
SpecJoinFair ==
    /\ SpecJoin
    /\ WF_vars(JoinRootLoop) /\ WF_vars(JoinReturn)
    /\ WF_vars(TopAcquire) /\ WF_vars(TopSend) /\ WF_vars(TopReturn)
    /\ WF_vars(ParentAcquire) /\ WF_vars(ParentLoop)
    /\ WF_vars(ParentWait) /\ WF_vars(ParentReturn)
    /\ WF_vars(SubAcquire) /\ WF_vars(SubSend) /\ WF_vars(SubReturn)
    /\ WF_vars(CollectLarge)

(***************************************************************************)
(* SpecGrace: loadCacheFromDisk (main.go:2412-2447) against a directory    *)
(* that other processes modify minutes after its record was saved.  The    *)
(* modification times are in minutes from the start of day Time0; the wall *)
(* clock handed to loadCacheFromDisk is in days, as cacheTTL is.           *)
(***************************************************************************)
\* cacheModTimeGrace, 30*time.Minute, in minutes
cacheModTimeGrace == 30

\* the minutes SpecGrace's clock runs for
MaxMinutes == 64

\* the minutes that pass in one step of the clock
GraceSteps == {1, cacheModTimeGrace - 1, cacheModTimeGrace}

\* the minute, before the start of the day, the directory was last modified
\* at when its record was saved
SavedModTime == 0 - 10

\* the wall clock in days at minute t
DayOf(t) == Time0 + (t \div (24 * 60))

\* the record was saved yesterday or more than cacheTTL days ago
InitGrace ==
    /\ sc \in {[pc |-> "idle", now |-> 0, mt |-> SavedModTime, hit |-> FALSE,
                file |-> Record(NoResult, SavedModTime, t, t)] :
                 t \in {Time0 - 1, Time0 - cacheTTL - 1}}
    /\ UiOff /\ DelOff /\ LibOff

\* time passes
GraceTick(d) ==
    /\ sc.now + d <= MaxMinutes
    /\ sc' = [sc EXCEPT !.now = @ + d, !.pc = "idle"]
    /\ scanOthersUnchanged

\* another process adds or removes a file of the directory
GraceTouch ==
    /\ sc.mt < sc.now
    /\ sc' = [sc EXCEPT !.mt = sc.now, !.pc = "idle"]
    /\ scanOthersUnchanged

\* loadCacheFromDisk(path)
GraceLoad ==
    /\ sc.pc = "idle"
    /\ sc' = [sc EXCEPT !.pc = "ret",
                !.hit = loadCacheFromDisk(sc.file, {APPS}, [p \in {APPS} |-> sc.mt],
                                          APPS, DayOf(sc.now))]
    /\ scanOthersUnchanged

NextGrace ==
    \/ \E d \in GraceSteps : GraceTick(d)
    \/ GraceTouch
    \/ GraceLoad

SpecGrace == InitGrace /\ [][NextGrace]_vars

(***************************************************************************)
(* SpecBatch: a size walk that batches its counter updates,                *)
(* calculateDirSizeFast (main.go:1501-1565) and calculateDirSizeConcurrent *)
(* of the second variant (main.go:3933-3999), one callback of WalkDir per  *)
(* step.  filesScanned, dirsScanned and bytesScanned are what this walk    *)
(* has added to the shared counters.  Ghost: files, dirs and bytes, what   *)
(* the callback has counted; n, the callbacks made.                        *)
(***************************************************************************)
batchUpdateSize == 100

\* the callbacks of one walk
MaxItems == 104

\* callbacks that return without counting: an error, a folded directory
MaxSkips == 1

\* the sizes of the files: an empty one and one of a block
BatchSizes == {0, 4096}

InitBatch ==
    /\ sc = [pc |-> "walk", n |-> 0, skips |-> 0,
             total |-> 0, localFiles |-> 0, localDirs |-> 0, batchBytes |-> 0,
             filesScanned |-> 0, dirsScanned |-> 0, bytesScanned |-> 0,
             files |-> 0, dirs |-> 0, bytes |-> 0, ret |-> 0]
    /\ UiOff /\ DelOff /\ LibOff

BatchMore == sc.pc = "walk" /\ sc.n < MaxItems

\* the callback returns nil on err != nil and on an error of d.Info(); the
\* second variant returns SkipDir for a folded directory
WalkSkip ==
    /\ BatchMore
    /\ sc.skips < MaxSkips
    /\ sc' = [sc EXCEPT !.n = @ + 1, !.skips = @ + 1]
    /\ scanOthersUnchanged

\* the callback for a directory
WalkDirectory ==
    /\ BatchMore
    /\ LET localDirs == sc.localDirs + 1
           flush == localDirs % batchUpdateSize = 0
       IN  sc' = [sc EXCEPT
                    !.n = @ + 1,
                    !.dirs = @ + 1,
                    !.localDirs = IF flush THEN 0 ELSE localDirs,
                    !.dirsScanned = IF flush THEN @ + batchUpdateSize ELSE @]
    /\ scanOthersUnchanged

\* the callback for a file of this size
WalkFile(size) ==
    /\ BatchMore
    /\ LET batchBytes == sc.batchBytes + size
           localFiles == sc.localFiles + 1
           flush == localFiles % batchUpdateSize = 0
       IN  sc' = [sc EXCEPT
                    !.n = @ + 1, !.files = @ + 1, !.bytes = @ + size,
                    !.total = @ + size,
                    !.localFiles = IF flush THEN 0 ELSE localFiles,
                    !.batchBytes = IF flush THEN 0 ELSE batchBytes,
                    !.filesScanned = IF flush THEN @ + batchUpdateSize ELSE @,
                    !.bytesScanned = IF flush THEN @ + batchBytes ELSE @]
    /\ scanOthersUnchanged

\* a return that leaves the remainders where they are
BatchReturnUnflushed ==
    /\ sc.pc = "walk"
    /\ sc' = [sc EXCEPT !.pc = "done", !.ret = sc.total]
    /\ scanOthersUnchanged

\* WalkDir has returned, at the end of a tree of any size or, in
\* calculateDirSizeFast, when the context's deadline has passed: the final
\* updates and the return
BatchReturn ==
    /\ sc.pc = "walk"
    /\ sc' = [sc EXCEPT
                !.pc = "done",
                !.filesScanned = IF sc.localFiles > 0 THEN @ + sc.localFiles ELSE @,
                !.dirsScanned = IF sc.localDirs > 0 THEN @ + sc.localDirs ELSE @,
                !.bytesScanned = IF sc.batchBytes > 0 THEN @ + sc.batchBytes ELSE @,
                !.ret = sc.total]
    /\ scanOthersUnchanged

NextBatch ==
    \/ WalkSkip
    \/ WalkDirectory
    \/ \E size \in BatchSizes : WalkFile(size)
    \/ BatchReturn

SpecBatch == InitBatch /\ [][NextBatch]_vars

(***************************************************************************)
(* SpecTracker: the largeFileTracker of the second variant of main.go      *)
(* (lines 4001-4057) and goroutines that call add and list in any order.   *)
(* entries is held largest first: the order of the buffer is read only     *)
(* after sort.Slice has run, and sort.Slice is not stable.  A file is its  *)
(* size.                                                                   *)
(***************************************************************************)
\* the goroutines that call the tracker
TrackerWorkers == {1, 2}

\* the sizes of the files handed to add; the first is below the minimum
TrackerSizes == {50 * MiB, 100 * MiB, 200 * MiB}

\* the sizes of the files goroutine g finds: the calls of add are made one
\* after the other in any order, so every sequence of sizes is added
FilesOf(g) == IF g = 1 THEN {50 * MiB, 100 * MiB} ELSE {200 * MiB}

\* add that takes the smallest file of the buffer for the new threshold
trackerAddLowThreshold(t, size) ==
    LET grown == InsertDesc([size |-> size], t.entries)
    IN  IF Len(grown) > maxLargeFilesTracker * 3
        THEN [t EXCEPT !.entries = SubSeq(grown, 1, maxLargeFilesTracker),
                       !.minSize = grown[Len(grown)].size,
                       !.needsSort = FALSE]
        ELSE [t EXCEPT !.entries = grown, !.needsSort = TRUE]

\* add without the Lock: what it leaves of the tracker t
trackerAdd(t, size) ==
    LET grown == InsertDesc([size |-> size], t.entries)
    IN  IF Len(grown) > maxLargeFilesTracker * 3
        THEN IF Len(grown) > maxLargeFilesTracker
             THEN [t EXCEPT !.entries = SubSeq(grown, 1, maxLargeFilesTracker),
                            !.minSize = grown[maxLargeFilesTracker].size,
                            !.needsSort = FALSE]
             ELSE [t EXCEPT !.entries = grown, !.needsSort = FALSE]
        ELSE [t EXCEPT !.entries = grown, !.needsSort = TRUE]

\* a list that does not cut the buffer
trackerListUncut(t) == [t EXCEPT !.needsSort = FALSE]

\* list without the Lock: what it leaves of the tracker t; it returns a
\* copy of the entries it leaves
trackerList(t) ==
    IF t.needsSort
    THEN [t EXCEPT !.entries = Truncate(t.entries, maxLargeFilesTracker),
                   !.needsSort = FALSE]
    ELSE t

\* newLargeFileTracker(), no goroutine in a call.  Ghost: added, how many
\* files of each size of at least minLargeFileSize add was called with and
\* has returned for; last, the call that returned last.
InitTracker ==
    /\ tr = [entries |-> << >>, minSize |-> minLargeFileSize, needsSort |-> FALSE,
             mu |-> 0,
             w |-> [g \in TrackerWorkers |-> [pc |-> "idle", f |-> 0]],
             added |-> [x \in TrackerSizes |-> 0], last |-> "none"]
    /\ ov = Off
    /\ UiOff /\ DelOff /\ ScanOff

trackerOthersUnchanged == UNCHANGED <<uiVars, delVars, scanVars, ov>>

\* the files add has returned for and those it is still working on
AddsStarted ==
    SumOver(tr.added, TrackerSizes)
        + Cardinality({g \in TrackerWorkers : tr.w[g].pc \in {"lock", "in"}})

\* add(f) up to t.mu.Lock(): the test of f.size against t.minSize
AddCheck(g) ==
    /\ tr.w[g].pc = "idle"
    /\ AddsStarted < MaxAdds
    /\ \E size \in FilesOf(g) :
          tr' = IF size < tr.minSize
                THEN [tr EXCEPT
                        !.added[size] = IF size >= minLargeFileSize THEN @ + 1 ELSE @,
                        !.last = IF size >= minLargeFileSize THEN "add" ELSE @]
                ELSE [tr EXCEPT !.w[g] = [pc |-> "lock", f |-> size]]
    /\ trackerOthersUnchanged

\* t.mu.Lock() of add
AddLock(g) ==
    /\ tr.w[g].pc = "lock"
    /\ tr.mu = 0
    /\ tr' = [tr EXCEPT !.mu = g, !.w[g].pc = "in"]
    /\ trackerOthersUnchanged

\* the rest of add, with the deferred Unlock
AddBody(g) ==
    /\ tr.w[g].pc = "in"
    /\ tr' = [trackerAdd(tr, tr.w[g].f) EXCEPT
                !.mu = 0,
                !.w[g] = [pc |-> "idle", f |-> 0],
                !.added[tr.w[g].f] = @ + 1,
                !.last = "add"]
    /\ trackerOthersUnchanged

\* t.mu.Lock() of list
ListLock(g) ==
    /\ tr.w[g].pc = "idle"
    /\ tr.mu = 0
    /\ tr' = [tr EXCEPT !.mu = g, !.w[g].pc = "lin"]
    /\ trackerOthersUnchanged

\* the rest of list, with the deferred Unlock
ListBody(g) ==
    /\ tr.w[g].pc = "lin"
    /\ tr' = [trackerList(tr) EXCEPT
                !.mu = 0, !.w[g].pc = "idle", !.last = "list"]
    /\ trackerOthersUnchanged

NextTracker ==
    \/ \E g \in TrackerWorkers : AddCheck(g)
    \/ \E g \in TrackerWorkers : AddLock(g)
    \/ \E g \in TrackerWorkers : AddBody(g)
    \/ \E g \in TrackerWorkers : ListLock(g)
    \/ \E g \in TrackerWorkers : ListBody(g)

SpecTracker == InitTracker /\ [][NextTracker]_vars

(***************************************************************************)
(* SpecOverview: the overview screen from program start.  newModel and     *)
(* Init, the measureOverviewSize goroutines that scheduleOverviewScans     *)
(* starts, the overviewSizeMsg handler, the overview size store            *)
(* (overviewSnapshotCache, its mutex and its JSON document) and a caller   *)
(* of storeOverviewSize with any arguments.  The view stays in overview    *)
(* mode, the clock stands at Time0, and WriteFile and Rename succeed.      *)
(***************************************************************************)
\* the goroutines: two measurements and one further caller of the store
OvMeasurers == {1, 2}

OvCaller == 3

OvGoroutines == OvMeasurers \cup {OvCaller}

\* the paths that are keys of the store
OvKeys == {APPS, LIB, DIR_D}

\* the path ""
NoName == <<"">>

\* a key the store does not have, and overviewSizeSnapshot{Size, Updated}
Absent == [Size |-> 0, Updated |-> 0, has |-> FALSE]

Snap(size, updated) == [Size |-> size, Updated |-> updated, has |-> TRUE]

NoSnapshots == [p \in OvKeys |-> Absent]

\* a file: absent, of length 0, not JSON, one that os.ReadFile fails to
\* read (for a reason other than its absence), being written, or the JSON
\* document of a map of snapshots (sizes are JSON integers and times
\* RFC 3339 strings, which Unmarshal reads back as they were)
NoDocument == [kind |-> "none", data |-> NoSnapshots]

Doc(c) == [kind |-> "doc", data |-> c]

\* the documents the program may find when it starts
OvFiles ==
    {NoDocument,
     [kind |-> "empty", data |-> NoSnapshots],
     [kind |-> "corrupt", data |-> NoSnapshots],
     [kind |-> "unreadable", data |-> NoSnapshots],
     Doc([NoSnapshots EXCEPT ![APPS] = Snap(400, Time0 - 1)]),
     Doc([NoSnapshots EXCEPT ![APPS] = Snap(400, Time0 - overviewCacheTTL)]),
     Doc([NoSnapshots EXCEPT ![APPS] = Snap(0, Time0 - 1)])}

\* TotalSize of the usable gob record of /Applications, -1 when
\* loadCacheFromDisk fails
OvGobs == {-1, 0, 300}

\* what the du command reports (-1: it fails or times out; 0 is refused by
\* getDirectorySizeFromDu as invalid) and what the walk sums up
DuOutcomes == {-1, 0, 500}

WalkOutcomes == {0, 450}

\* the arguments of the further caller
CallerArgs ==
    {[path |-> NoName, size |-> 250], [path |-> DIR_D, size |-> 0],
     [path |-> DIR_D, size |-> 250], [path |-> APPS, size |-> 250]}

\* a load that takes an unparsable document for an empty one
ensureWithoutRename(s) ==
    IF s.loaded THEN [s EXCEPT !.err = FALSE]
    ELSE IF s.file.kind = "unreadable" THEN [s EXCEPT !.err = TRUE]
    ELSE [s EXCEPT !.cache = s.file.data, !.loaded = TRUE, !.loads = @ + 1,
                   !.err = FALSE]

\* ensureOverviewSnapshotCacheLocked, called with the mutex held; err is the
\* error it returns
ensureOverviewSnapshotCacheLocked(s) ==
    IF s.loaded THEN [s EXCEPT !.err = FALSE]
    ELSE IF s.file.kind = "unreadable" THEN [s EXCEPT !.err = TRUE]
    ELSE IF s.file.kind \in {"none", "empty"}
    THEN [s EXCEPT !.cache = NoSnapshots, !.loaded = TRUE, !.loads = @ + 1,
                   !.err = FALSE]
    ELSE IF s.file.kind = "doc"
    THEN [s EXCEPT !.cache = s.file.data, !.loaded = TRUE, !.loads = @ + 1,
                   !.err = FALSE]
    ELSE [s EXCEPT !.backup = s.file, !.file = NoDocument, !.cache = NoSnapshots,
                   !.loaded = TRUE, !.loads = @ + 1, !.err = FALSE]

\* a get that still accepts an entry on its seventh day
loadStoredOverviewSizeLate(s, path, t) ==
    LET s1 == ensureOverviewSnapshotCacheLocked(s)
    IN  IF s1.cache[path].has /\ t - s1.cache[path].Updated <= overviewCacheTTL
        THEN [s |-> s1, size |-> s1.cache[path].Size, err |-> FALSE]
        ELSE [s |-> s1, size |-> 0, err |-> TRUE]

\* loadStoredOverviewSize: the store after it, the size and the error
loadStoredOverviewSize(s, path, t) ==
    IF path = NoName THEN [s |-> s, size |-> 0, err |-> TRUE]
    ELSE LET s1 == ensureOverviewSnapshotCacheLocked(s)
             snapshot == s1.cache[path]
         IN  IF /\ ~s1.err
                /\ snapshot.has
                /\ snapshot.Size > 0
                /\ t - snapshot.Updated < overviewCacheTTL
             THEN [s |-> s1, size |-> snapshot.Size, err |-> FALSE]
             ELSE [s |-> s1, size |-> 0, err |-> TRUE]

\* storeOverviewSize refuses these arguments before it takes the mutex
storeRejects(path, size) == path = NoName \/ size <= 0

\* a put that forgets the entries of the other paths
storeSetAlone(s, path, size, t) ==
    [ensureOverviewSnapshotCacheLocked(s) EXCEPT
       !.cache = [NoSnapshots EXCEPT ![path] = Snap(size, t)]]

\* storeOverviewSize up to the call of persistOverviewSnapshotLocked
storeSet(s, path, size, t) ==
    LET s1 == ensureOverviewSnapshotCacheLocked(s)
    IN  IF s1.err THEN s1 ELSE [s1 EXCEPT !.cache[path] = Snap(size, t)]

\* persistOverviewSnapshotLocked, from start to end
persistOverviewSnapshotLocked(s) == [s EXCEPT !.file = Doc(s.cache)]

\* storeOverviewSize called where no other goroutine runs
storeOverviewSize(s, path, size, t) ==
    IF storeRejects(path, size) THEN s
    ELSE IF storeSet(s, path, size, t).err THEN storeSet(s, path, size, t)
    ELSE [persistOverviewSnapshotLocked(storeSet(s, path, size, t))
            EXCEPT !.last[path] = size]

\* loadOverviewCachedSize; gob is TotalSize of the path's gob record
loadOverviewCachedSize(s, path, gob, t) ==
    LET r == loadStoredOverviewSize(s, path, t)
    IN  IF ~r.err THEN r
        ELSE IF gob < 0 THEN [s |-> r.s, size |-> 0, err |-> TRUE]
        ELSE [s |-> storeOverviewSize(r.s, path, gob, t), size |-> gob,
              err |-> FALSE]

\* hydrateOverviewEntries of newModel, entry by entry from entry i
RECURSIVE hydrateFrom(_, _, _, _, _)
hydrateFrom(u, s, gobs, t, i) ==
    IF i > Len(u.entries) THEN [u |-> u, s |-> s]
    ELSE LET path == u.entries[i].path
             r == loadOverviewCachedSize(s, path, gobs[path], t)
         IN  IF r.err THEN hydrateFrom(u, r.s, gobs, t, i + 1)
             ELSE hydrateFrom(
                      [u EXCEPT !.entries[i].size = r.size,
                                !.overviewSizeCache = Put(@, path, r.size)],
                      r.s, gobs, t, i + 1)

\* the first entries without a size, in the scanning set or not
pendingIgnoringScanningSet(u) ==
    LET all == {i \in 1..Len(u.entries) : u.entries[i].size < 0}
    IN  {i \in all :
           Cardinality({j \in all : j < i}) < maxConcurrentOverview}

\* the entries scheduleOverviewScans picks
pendingIndices(u) ==
    LET all == {i \in 1..Len(u.entries) :
                  /\ u.entries[i].size < 0
                  /\ u.entries[i].path \notin u.overviewScanningSet}
    IN  {i \in all :
           Cardinality({j \in all : j < i}) < maxConcurrentOverview}

hasPendingOverviewEntries(es) == \E i \in 1..Len(es) : es[i].size < 0

scheduleOverviewScans(u) ==
    IF pendingIndices(u) = {}
    THEN [u EXCEPT !.overviewScanning = FALSE,
                   !.status = IF hasPendingOverviewEntries(u.entries)
                              THEN @ ELSE "Ready"]
    ELSE [u EXCEPT !.overviewScanningSet =
                       @ \cup {u.entries[i].path : i \in pendingIndices(u)},
                   !.overviewScanning = TRUE,
                   !.status = "Scanning"]

\* a goroutine that has not been started
OvIdle ==
    [pc |-> "idle", path |-> NoName, arg |-> 0, size |-> 0, err |-> FALSE,
     tried |-> << >>]

\* the measurement of entry i
MeasurerOf(u, i) == [OvIdle EXCEPT !.pc = "stat", !.path = u.entries[i].path]

InitOverview ==
    /\ \E f \in OvFiles, gob \in OvGobs, ex \in {{APPS}, {APPS, LIB}} :
         ov = [started |-> FALSE,
               u |-> [entries |-> createOverviewEntries,
                      overviewSizeCache |-> << >>,
                      overviewScanningSet |-> {},
                      overviewScanning |-> FALSE,
                      status |-> "Preparing scan...",
                      totalSize |-> 0],
               s |-> [loaded |-> FALSE, cache |-> NoSnapshots, mu |-> 0,
                      file |-> f, tmp |-> NoDocument, backup |-> NoDocument,
                      loads |-> 0, err |-> FALSE,
                      last |-> [p \in OvKeys |-> 0]],
               found |-> f,
               gobs |-> [p \in OvKeys |-> IF p = APPS THEN gob ELSE -1],
               ex |-> ex,
               now |-> Time0,
               g |-> [g \in OvGoroutines |-> OvIdle]]
    /\ tr = Off
    /\ UiOff /\ DelOff /\ ScanOff

overviewOthersUnchanged == UNCHANGED <<uiVars, delVars, scanVars, tr>>

\* newModel(path, true) and then Init(): Init has a value receiver, so of
\* what scheduleOverviewScans does only the scanning set and the commands
\* outlive it
OvStart ==
    /\ ~ov.started
    /\ LET h == hydrateFrom(ov.u, ov.s, ov.gobs, ov.now, 1)
           u1 == [h.u EXCEPT
                    !.totalSize = sumKnownEntrySizes(h.u.entries),
                    !.overviewScanning = hasPendingOverviewEntries(h.u.entries),
                    !.status = IF hasPendingOverviewEntries(h.u.entries)
                               THEN "Estimating system roots..." ELSE "Ready"]
           u2 == [u1 EXCEPT !.overviewScanningSet =
                                scheduleOverviewScans(u1).overviewScanningSet]
       IN  ov' = [ov EXCEPT
                    !.started = TRUE, !.u = u2, !.s = h.s,
                    !.g = [g \in OvGoroutines |->
                             IF g \in pendingIndices(u1)
                             THEN MeasurerOf(u1, g) ELSE ov.g[g]]]
    /\ overviewOthersUnchanged

\* a usable gob record of /Applications appears, written by another process
GobSavedMeanwhile ==
    /\ ov.started
    /\ ov.gobs[APPS] < 0
    /\ \E total \in OvGobs \ {-1} : ov' = [ov EXCEPT !.gobs[APPS] = total]
    /\ overviewOthersUnchanged

\* measureOverviewSize up to os.Stat
MeasureStat(g) ==
    /\ ov.g[g].pc = "stat"
    /\ ov' = [ov EXCEPT !.g[g].pc = IF ov.g[g].path \in ov.ex THEN "get" ELSE "ret",
                        !.g[g].err = ov.g[g].path \notin ov.ex]
    /\ overviewOthersUnchanged

\* strategy 1: loadStoredOverviewSize, lock to unlock
MeasureStored(g) ==
    /\ ov.g[g].pc = "get"
    /\ ov.s.mu = 0
    /\ LET r == loadStoredOverviewSize(ov.s, ov.g[g].path, ov.now)
       IN  ov' = [ov EXCEPT !.s = r.s,
                            !.g[g].pc = IF r.err THEN "du" ELSE "ret",
                            !.g[g].size = r.size,
                            !.g[g].tried = Append(@, "store")]
    /\ overviewOthersUnchanged

\* strategy 2: getDirectorySizeFromDu
MeasureDu(g) ==
    /\ ov.g[g].pc = "du"
    /\ \E r \in DuOutcomes :
         ov' = [ov EXCEPT !.g[g].pc = IF r > 0 THEN "put" ELSE "walk",
                          !.g[g].arg = IF r > 0 THEN r ELSE 0,
                          !.g[g].size = IF r > 0 THEN r ELSE 0,
                          !.g[g].tried = Append(@, "du")]
    /\ overviewOthersUnchanged

\* strategy 3: getDirectoryLogicalSize
MeasureWalk(g) ==
    /\ ov.g[g].pc = "walk"
    /\ \E r \in WalkOutcomes :
         ov' = [ov EXCEPT !.g[g].pc = IF r > 0 THEN "put" ELSE "gob",
                          !.g[g].arg = r,
                          !.g[g].size = r,
                          !.g[g].tried = Append(@, "walk")]
    /\ overviewOthersUnchanged

\* strategy 4: loadCacheFromDisk, and the error when it fails too
MeasureGob(g) ==
    /\ ov.g[g].pc = "gob"
    /\ LET total == ov.gobs[ov.g[g].path]
       IN  ov' = [ov EXCEPT !.g[g].pc = IF total >= 0 THEN "put" ELSE "ret",
                            !.g[g].arg = IF total >= 0 THEN total ELSE 0,
                            !.g[g].size = IF total >= 0 THEN total ELSE 0,
                            !.g[g].err = total < 0,
                            !.g[g].tried = Append(@, "gob")]
    /\ overviewOthersUnchanged

\* go storeOverviewSize(path, size) by a caller with any arguments
CallStore ==
    /\ ov.started
    /\ ov.g[OvCaller].pc = "idle"
    /\ \E a \in CallerArgs :
         ov' = [ov EXCEPT !.g[OvCaller].pc = "put",
                          !.g[OvCaller].path = a.path,
                          !.g[OvCaller].arg = a.size]
    /\ overviewOthersUnchanged

\* storeOverviewSize returns an error before it touches the store
StoreReject(g) ==
    /\ ov.g[g].pc = "put"
    /\ storeRejects(ov.g[g].path, ov.g[g].arg)
    /\ ov' = [ov EXCEPT !.g[g].pc = "ret"]
    /\ overviewOthersUnchanged

\* storeOverviewSize: Lock, ensure, and the entry set in the map, or the
\* error of ensure returned
StoreLock(g) ==
    /\ ov.g[g].pc = "put"
    /\ ~storeRejects(ov.g[g].path, ov.g[g].arg)
    /\ ov.s.mu = 0
    /\ LET s1 == storeSet(ov.s, ov.g[g].path, ov.g[g].arg, ov.now)
       IN  ov' = [ov EXCEPT
                    !.s = IF s1.err THEN s1 ELSE [s1 EXCEPT !.mu = g],
                    !.g[g].pc = IF s1.err THEN "ret" ELSE "write"]
    /\ overviewOthersUnchanged

\* a persist that writes the document where it is
PersistWriteInPlace(g) ==
    /\ ov.g[g].pc = "write"
    /\ ov' = [ov EXCEPT !.s.file = [kind |-> "partial", data |-> NoSnapshots],
                        !.s.tmp = [kind |-> "partial", data |-> NoSnapshots],
                        !.g[g].pc = "written"]
    /\ overviewOthersUnchanged

\* persistOverviewSnapshotLocked: os.WriteFile has created the temporary
\* file and written a part of the document
PersistWrite(g) ==
    /\ ov.g[g].pc = "write"
    /\ ov' = [ov EXCEPT !.s.tmp = [kind |-> "partial", data |-> NoSnapshots],
                        !.g[g].pc = "written"]
    /\ overviewOthersUnchanged

\* os.WriteFile returns
PersistWritten(g) ==
    /\ ov.g[g].pc = "written"
    /\ ov' = [ov EXCEPT !.s.tmp = Doc(ov.s.cache), !.g[g].pc = "rename"]
    /\ overviewOthersUnchanged

\* os.Rename(tmp, storePath), Unlock and return
PersistRename(g) ==
    /\ ov.g[g].pc = "rename"
    /\ ov' = [ov EXCEPT !.s.file = ov.s.tmp, !.s.tmp = NoDocument, !.s.mu = 0,
                        !.s.last[ov.g[g].path] = ov.g[g].arg,
                        !.g[g].pc = "ret"]
    /\ overviewOthersUnchanged

\* Update for an overviewSizeMsg up to the call of scheduleOverviewScans
applyOverviewSize(u, msg) ==
    LET u1 == [u EXCEPT
                 !.overviewScanningSet = @ \ {msg.path},
                 !.overviewSizeCache =
                     IF msg.err THEN @ ELSE Put(@, msg.path, msg.size)]
        es == [i \in 1..Len(u1.entries) |->
                 IF u1.entries[i].path = msg.path
                 THEN [u1.entries[i] EXCEPT
                         !.size = IF msg.err THEN 0 ELSE msg.size]
                 ELSE u1.entries[i]]
    IN  [u1 EXCEPT !.entries = es,
                   !.totalSize = sumKnownEntrySizes(es),
                   !.status = IF msg.err THEN "Unable to measure" ELSE @]

\* Update for an overviewSizeMsg: what it leaves of the model u
updateOverviewSize(u, msg) == scheduleOverviewScans(applyOverviewSize(u, msg))

\* Update(overviewSizeMsg) for the measurement g has returned from
HandleOverviewSize(g) ==
    /\ g \in OvMeasurers
    /\ ov.g[g].pc = "ret"
    /\ ov' = [ov EXCEPT !.u = updateOverviewSize(ov.u, ov.g[g]),
                        !.g[g].pc = "done"]
    /\ overviewOthersUnchanged

NextOverview ==
    \/ OvStart
    \/ GobSavedMeanwhile
    \/ CallStore
    \/ \E g \in OvMeasurers : MeasureStat(g)
    \/ \E g \in OvMeasurers : MeasureStored(g)
    \/ \E g \in OvMeasurers : MeasureDu(g)
    \/ \E g \in OvMeasurers : MeasureWalk(g)
    \/ \E g \in OvMeasurers : MeasureGob(g)
    \/ \E g \in OvGoroutines : StoreReject(g)
    \/ \E g \in OvGoroutines : StoreLock(g)
    \/ \E g \in OvGoroutines : PersistWrite(g)
    \/ \E g \in OvGoroutines : PersistWritten(g)
    \/ \E g \in OvGoroutines : PersistRename(g)
    \/ \E g \in OvMeasurers : HandleOverviewSize(g)

SpecOverview == InitOverview /\ [][NextOverview]_vars

(***************************************************************************)
(* SpecSchedule: the overview screen with all five shortcuts (HOME set,    *)
(* /Volumes present) and the user staying on it: scheduleOverviewScans at  *)
(* Init and after every overviewSizeMsg, the measurement goroutines        *)
(* counted per shortcut.  run[i] is the number of goroutines measuring     *)
(* entry i, ok[i] and bad[i] the messages of finished measurements Update  *)
(* has yet to receive.  Ghost: cached, the entries hydrated from the       *)
(* store.                                                                  *)
(***************************************************************************)
HOME == <<"Users", "me">>

VOLUMES == <<"Volumes">>

\* createOverviewEntries with HOME set and /Volumes present
createOverviewEntriesAll ==
    << [name |-> "Home (~)", path |-> HOME, size |-> -1, isDir |-> TRUE],
       [name |-> "Library (~/Library)", path |-> Join(HOME, "Library"),
        size |-> -1, isDir |-> TRUE] >>
    \o createOverviewEntries
    \o << [name |-> "Volumes", path |-> VOLUMES, size |-> -1, isDir |-> TRUE] >>

Shortcuts == 1..Len(createOverviewEntriesAll)

\* what a stored snapshot and a measurement give for a shortcut
ShortcutSizes == [stored |-> 300, measured |-> 500]

\* newModel(path, true): the entries, those in cached hydrated
ScheduleModel(cached) ==
    LET es == [i \in Shortcuts |->
                 IF i \in cached
                 THEN [createOverviewEntriesAll[i] EXCEPT !.size = ShortcutSizes.stored]
                 ELSE createOverviewEntriesAll[i]]
    IN  [entries |-> es,
         overviewSizeCache |-> [p \in {es[i].path : i \in cached} |-> ShortcutSizes.stored],
         overviewScanningSet |-> {},
         overviewScanning |-> hasPendingOverviewEntries(es),
         status |-> IF hasPendingOverviewEntries(es)
                    THEN "Estimating system roots..." ELSE "Ready",
         totalSize |-> sumKnownEntrySizes(es)]

InitSchedule ==
    /\ \E cached \in SUBSET Shortcuts :
         ov = [started |-> FALSE, u |-> ScheduleModel(cached), cached |-> cached,
               run |-> [i \in Shortcuts |-> 0],
               ok |-> [i \in Shortcuts |-> 0],
               bad |-> [i \in Shortcuts |-> 0]]
    /\ tr = Off
    /\ UiOff /\ DelOff /\ ScanOff

\* the goroutines of the commands scheduleOverviewScans(u) returns
Started(u, run) ==
    [i \in Shortcuts |-> IF i \in pendingIndices(u) THEN run[i] + 1 ELSE run[i]]

\* Init(): it has a value receiver, so of what scheduleOverviewScans does
\* only the scanning set and the commands outlive it
ScheduleInit ==
    /\ ~ov.started
    /\ ov' = [ov EXCEPT
                !.started = TRUE,
                !.u.overviewScanningSet =
                    scheduleOverviewScans(ov.u).overviewScanningSet,
                !.run = Started(ov.u, ov.run)]
    /\ overviewOthersUnchanged

\* a goroutine of scanOverviewPathCmd returns its overviewSizeMsg
ScheduleMeasured(i) ==
    /\ ov.run[i] > 0
    /\ \/ ov' = [ov EXCEPT !.run[i] = @ - 1, !.ok[i] = @ + 1]
       \/ ov' = [ov EXCEPT !.run[i] = @ - 1, !.bad[i] = @ + 1]
    /\ overviewOthersUnchanged

\* Update for the overviewSizeMsg of entry i, and the commands it returns
ScheduleHandle(i) ==
    /\ \E err \in BOOLEAN :
         /\ IF err THEN ov.bad[i] > 0 ELSE ov.ok[i] > 0
         /\ \E u \in {applyOverviewSize(ov.u,
                          [path |-> ov.u.entries[i].path, size |-> ShortcutSizes.measured,
                           err |-> err])} :
               ov' = [ov EXCEPT
                        !.u = scheduleOverviewScans(u),
                        !.ok[i] = IF err THEN @ ELSE @ - 1,
                        !.bad[i] = IF err THEN @ - 1 ELSE @,
                        !.run = Started(u, ov.run)]
    /\ overviewOthersUnchanged

NextSchedule ==
    \/ ScheduleInit
    \/ \E i \in Shortcuts : ScheduleMeasured(i)
    \/ \E i \in Shortcuts : ScheduleHandle(i)

SpecSchedule == InitSchedule /\ [][NextSchedule]_vars

\* Init runs, every measurement returns and bubbletea delivers every
\* message
SpecScheduleFair ==
    /\ SpecSchedule
    /\ WF_vars(ScheduleInit)
    /\ \A i \in Shortcuts : WF_vars(ScheduleMeasured(i))
    /\ \A i \in Shortcuts : WF_vars(ScheduleHandle(i))


(***************************************************************************)
(* Properties of scanCmd, checked under SpecCmd.                           *)
(***************************************************************************)
\* goroutine i ran scanPathConcurrent itself
Walked(i) == scans[i].pc \in {"lead", "ret"} /\ scans[i].walk = i

\* C1: when scan requests for one path that has no valid cache record are
\* in progress at the same time, one walk runs and each request gets the
\* result of that walk: no two requests of which one started while the
\* other was running have each run a walk of their own.
C1_OverlappingRequestsShareOneWalk ==
    \A i, j \in 1..MaxScans :
        (/\ i # j
         /\ scans[i].path = scans[j].path
         /\ j \in scans[i].seen
         /\ ~scans[i].err /\ ~scans[j].err
         /\ Walked(j))
        => ~Walked(i)

\* C2: a scan request for a path of which a scan has completed (walked,
\* returned and saved) and that was not modified since, with the clock
\* where it was, returns the result of that scan from the cache file and
\* walks nothing.
C2_SecondScanAnsweredFromCache ==
    \A i \in 1..MaxScans :
        (/\ scans[i].pc = "ret"
         /\ scans[i].prior # 0
         /\ scans[i].retAt = scans[i].startAt)
        => /\ scans[i].src = "disk"
           /\ scans[i].res = scans[scans[i].prior].res

\* what loadCacheFromDisk of goroutine i found makes a valid record
SawValid(i) ==
    /\ scans[i].ld.dec /\ ~scans[i].ld.gone
    /\ ~scans[i].ld.later /\ ~scans[i].ld.old

C4_DeleteCompletionMarksAllDirty ==
    [][\A k \in 1..MaxDeletes :
          (/\ dels[k].pc = "ret" /\ dels'[k].pc = "done"
           /\ (dels[k].err => dels[k].count > 0))
          => /\ \A i \in 1..Len(m'.history) : m'.history[i].dirty
             /\ \A q \in DOMAIN m'.cache : m'.cache[q].dirty]_vars

\* C5: what a visit made after a successful delete shows (the result of a
\* scan requested after it, or a snapshot restored after it) was read from
\* the tree by a walk that ran after the deletion.
C5_VisitAfterDeleteReflectsIt == m.vis => m.asof >= m.delAt

\* the nodes the step removes are below the path of a running delete
RemovesOnlyBelowTarget ==
    /\ fsEx' \subseteq fsEx
    /\ \A n \in fsEx \ fsEx' :
          \E k \in 1..MaxDeletes : dels[k].pc = "run" /\ Under(n, dels[k].path)

\* C6: a delete is started only by Delete or Backspace while a confirmation
\* for a target is pending, and for the path of that target; any other key
\* received then ends the confirmation and starts and removes nothing; the
\* target is the entry that was selected when the confirmation was asked
\* for and stays the same while it is pending; nothing is removed but below
\* the path a delete was started for (the state after the program has
\* ended stands for no tree).
C6_DeleteOnlyOnConfirmedTarget ==
    [][/\ nDels' > nDels =>
            /\ m.deleteConfirm /\ m.deleteTarget # NoTarget
            /\ \E k \in {"delete", "backspace"} : UpdateKey(k)
            /\ dels'[nDels'].pc = "run"
            /\ dels'[nDels'].path = m.deleteTarget.path
       /\ \A k \in Keys \ {"delete", "backspace"} :
            (m.deleteConfirm /\ UpdateKey(k)) =>
                /\ ~m'.deleteConfirm /\ m'.running
                /\ nDels' = nDels /\ dels' = dels /\ fsEx' = fsEx
       /\ (~m.deleteConfirm /\ m'.deleteConfirm) =>
                m'.deleteTarget = selectedTarget(m)
       /\ (m.deleteConfirm /\ m'.deleteConfirm) =>
                m'.deleteTarget = m.deleteTarget
       /\ m'.running => RemovesOnlyBelowTarget]_vars

\* a confirmed delete has been started and its goroutine has removed the
\* target
C6_ConfirmedDeleteRan ==
    \E k \in 1..MaxDeletes :
        /\ dels[k].pc = "ret" /\ ~dels[k].err
        /\ dels[k].path \notin fsEx

(***************************************************************************)
(* Properties of deletePathWithProgress, checked under SpecDelete.         *)
(***************************************************************************)
\* the files the operation has removed
FilesRemoved == Files \ dEx

\* the files the callback called os.Remove for in vain
FailedRemovals ==
    {f \in Files \cap dPerm.locked :
        /\ LstatOk(Nodes, dl.root)
        /\ Reached(Nodes, dPerm.unreadable, Resolve(dl.root), f)}

\* C7: called with the empty path or a relative path, the delete removes
\* nothing and returns an error.
C7_RejectsEmptyAndRelativePaths ==
    ~dl.root.abs => /\ dEx = Nodes
                    /\ dl.pc = "done" => dl.err

\* C8: when the removal of some files failed, these files are still there
\* and are not counted, and the delete returns the count of the others and
\* no error.
C8_FailedRemovalsEndInSuccess ==
    (dl.pc = "done" /\ FailedRemovals # {}) =>
        /\ FailedRemovals \subseteq dEx
        /\ dl.count = Cardinality(FilesRemoved)
        /\ ~dl.err

\* C9: the count the delete returns is the number of files below the path
\* that it removed, and the progress counter never goes down and ends
\* equal to the count.
C9_CountIsFilesRemoved ==
    [][/\ dl'.counter >= dl.counter
       /\ dl'.pc = "done" =>
            /\ dl'.count = Cardinality(Files \ dEx')
            /\ dl'.counter = dl'.count
            /\ \A f \in Files \ dEx' : Under(f, Resolve(dl.root))]_vars

\* a delete of a directory returned after removing one file and failing
\* to remove the other
C9_PartialCountReturned ==
    /\ dl.pc = "done" /\ dl.count = 1 /\ dl.counter = 1
    /\ F_BIG \notin dEx /\ F_C \in dEx

(***************************************************************************)
(* Properties of scanPathConcurrent, checked under SpecScan.               *)
(***************************************************************************)
\* C10: for a directory of any number of children, the sizes of the
\* entries of the result, folded and not, add up to its totalSize.
C10_EntriesSumToTotal ==
    sc.pc = "done" => SumSizes(sc.result.entries) = sc.result.totalSize

\* C10, with the cut of the list: for a directory of at most maxEntries
\* (30) children the
\* sizes of the entries add up to totalSize; of more children the result
\* holds maxEntries entries, none smaller than a child left out, and their
\* sizes add up to at most totalSize, which is the sum over all children.
C10_EntriesSumToTotalUpToMaxEntries ==
    sc.pc = "done" =>
        LET n == Len(sc.children)
            sum == SumSizes(sc.result.entries)
        IN  /\ sc.result.totalSize = SumSizes(sc.entries)
            /\ Len(sc.entries) = n
            /\ n <= maxEntries => sum = sc.result.totalSize
            /\ n > maxEntries =>
                  /\ Len(sc.result.entries) = maxEntries
                  /\ sum <= sc.result.totalSize
                  /\ \A i \in 1..n :
                        sc.result.entries[maxEntries].size
                            >= SortDesc(sc.entries)[i].size
                        \/ i <= maxEntries

\* a directory of more than maxEntries children was scanned and the
\* entries of the result add up to less than totalSize
C10_TruncatedResult ==
    /\ sc.pc = "done"
    /\ Len(sc.children) > maxEntries
    /\ SumSizes(sc.result.entries) < sc.result.totalSize
\* how many entries of s are of size v or larger
CountAtLeast(s, v) == Cardinality({i \in 1..Len(s) : s[i].size >= v})

\* the list holds at most maxEntries entries, all those sent when these are
\* no more, and for every size as many entries that large as were sent, up
\* to the length of the list: it holds the largest of the entries sent
IsTopOf(es, sent) ==
    /\ Len(es) <= maxEntries
    /\ Len(sent) <= maxEntries => Len(es) = Len(sent)
    /\ Len(sent) > maxEntries => Len(es) = maxEntries
    /\ \A j \in 1..Len(sent) :
          LET n == CountAtLeast(sent, sent[j].size)
          IN  CountAtLeast(es, sent[j].size) = IF n > Len(es) THEN Len(es) ELSE n

\* C11: the entries of a result are in strictly descending order of size,
\* at most 30, and of more than 30 measured children the 30 largest.
C11_EntriesStrictlyDescendingTop30 ==
    sc.pc = "done" =>
        /\ \A i \in 1..(Len(sc.result.entries) - 1) :
              sc.result.entries[i].size > sc.result.entries[i + 1].size
        /\ IsTopOf(sc.result.entries, sc.entries)

\* C11, equal sizes allowed: no entry of a result is smaller than the one
\* after it, the entries are at most 30, and of more than 30 measured
\* children they are 30 of the largest.
C11_EntriesDescendingTop30 ==
    sc.pc = "done" =>
        /\ \A i \in 1..(Len(sc.result.entries) - 1) :
              sc.result.entries[i].size >= sc.result.entries[i + 1].size
        /\ IsTopOf(sc.result.entries, sc.entries)

\* a directory of more than maxEntries children was scanned, and two
\* entries of the result have the same size
C11_TiedEntriesInCutResult ==
    /\ sc.pc = "done"
    /\ Len(sc.entries) > maxEntries
    /\ \E i \in 1..(Len(sc.result.entries) - 1) :
          sc.result.entries[i].size = sc.result.entries[i + 1].size

(***************************************************************************)
(* Properties of scanPathConcurrent and its goroutines, checked under      *)
(* SpecWalk.                                                               *)
(***************************************************************************)
\* C12: the large files of a result are in descending order of size, at
\* most 30, each of 100 MiB or more and of an extension that is not on the
\* skip-list, whether they come from the walk or from mdfind.
C12_LargeFilesSortedCappedFiltered ==
    (sc.pc = "done" /\ ~sc.err) =>
        LET lf == sc.result.largeFiles
        IN  /\ Len(lf) <= maxLargeFiles
            /\ \A i \in 1..(Len(lf) - 1) : lf[i].size >= lf[i + 1].size
            /\ \A i \in 1..Len(lf) :
                  /\ lf[i].size >= minLargeFileSize
                  /\ ~shouldSkipFileForLargeTracking(lf[i].path)

\* the directories below the root of the scene that the fold rule matches
FoldedBelowRoot ==
    {q \in DOMAIN WalkTree(sc.scene) :
        /\ q # WalkRoot(sc.scene)
        /\ WalkTree(sc.scene)[q].isDir
        /\ shouldFoldDirWithPath(Base(q), q)}

\* the entries of the result for the path q
EntriesFor(q) ==
    {i \in 1..Len(sc.result.entries) : sc.result.entries[i].path = q}

\* the size is an aggregate size of the folded directory q: the answer of
\* du or the sum of the walk
IsAggregateSize(q, size) ==
    size \in {WalkTree(sc.scene)[q].du, fastWalk(WalkTree(sc.scene), sc.bad, q).size}

\* no large file of the result lies in a folded directory, and no entry is
\* a child of one
NothingFromInsideFolded ==
    /\ \A i \in 1..Len(sc.result.largeFiles) :
          \A q \in FoldedBelowRoot :
              ~(q # sc.result.largeFiles[i].path
                /\ Under(sc.result.largeFiles[i].path, q))
    /\ \A i \in 1..Len(sc.result.entries) :
          Parent(sc.result.entries[i].path) \notin FoldedBelowRoot

\* C13: no file below a folded directory, at any depth, is among the large
\* files, no child of a folded directory is an entry, and a folded child of
\* root is exactly one entry, which carries its aggregate size.
C13_FoldedDirsAreOneEntry ==
    (sc.pc = "done" /\ ~sc.err) =>
        /\ NothingFromInsideFolded
        /\ \A q \in FoldedBelowRoot :
              Parent(q) = WalkRoot(sc.scene) =>
                  /\ Cardinality(EntriesFor(q)) = 1
                  /\ \A i \in EntriesFor(q) :
                        IsAggregateSize(q, sc.result.entries[i].size)

\* C13, but for the directories that get no entry: a folded child of root
\* that is a system directory skipped at / has no entry, and one that is not
\* among the maxEntries largest children has none; every other one is
\* exactly one entry, which carries its aggregate size.
C13_FoldedDirsAreOneEntryUnlessSkippedOrCut ==
    (sc.pc = "done" /\ ~sc.err) =>
        /\ NothingFromInsideFolded
        /\ \A q \in FoldedBelowRoot :
              Parent(q) = WalkRoot(sc.scene) =>
                  /\ \A i \in EntriesFor(q) :
                        IsAggregateSize(q, sc.result.entries[i].size)
                  /\ IF WalkRoot(sc.scene) = << >> /\ Base(q) \in skipSystemDirs
                     THEN EntriesFor(q) = {}
                     ELSE \/ Cardinality(EntriesFor(q)) = 1
                          \/ /\ EntriesFor(q) = {}
                             /\ Len(sc.entries) > maxEntries
                             /\ Len(sc.result.entries) = maxEntries
                             /\ \E j \in 1..Len(sc.entries) :
                                   /\ sc.entries[j].path = q
                                   /\ IsAggregateSize(q, sc.entries[j].size)
                                   /\ \A i \in 1..maxEntries :
                                         sc.result.entries[i].size >= sc.entries[j].size

\* the deep scene was scanned: the folded vendor is an entry, and mdfind
\* printed files of folded directories and others
C13_FoldedEntryAndSpotlightFiles ==
    /\ sc.pc = "done" /\ ~sc.err /\ sc.scene = "deep"
    /\ EntriesFor(<<"t", "vendor">>) # {}
    /\ Len(sc.result.largeFiles) = 2

\* C14: the scan of a root with a.txt (10 MiB), b.txt (200 MiB) and a
\* folded node_modules of 500 MiB returns the entries node_modules, b.txt,
\* a.txt with these sizes, the large files [b.txt 200 MiB] and the total
\* 710 MiB.
C14_ExampleScanWithLargeTxt ==
    (sc.pc = "done" /\ sc.scene = "example" /\ sc.bad = {}) =>
        /\ ~sc.err
        /\ sc.result.entries =
              <<dirEntry(<<"t", "node_modules">>, 500 * MiB, TRUE),
                dirEntry(<<"t", "b.txt">>, 200 * MiB, FALSE),
                dirEntry(<<"t", "a.txt">>, 10 * MiB, FALSE)>>
        /\ sc.result.largeFiles = <<fileEntry(<<"t", "b.txt">>, 200 * MiB)>>
        /\ sc.result.totalSize = 710 * MiB

\* C14, .txt being on the skip-list: the same entries and total, and no
\* large file.
C14_ExampleScanNoLargeFile ==
    (sc.pc = "done" /\ sc.scene = "example" /\ sc.bad = {}) =>
        /\ ~sc.err
        /\ sc.result.entries =
              <<dirEntry(<<"t", "node_modules">>, 500 * MiB, TRUE),
                dirEntry(<<"t", "b.txt">>, 200 * MiB, FALSE),
                dirEntry(<<"t", "a.txt">>, 10 * MiB, FALSE)>>
        /\ sc.result.largeFiles = << >>
        /\ sc.result.totalSize = 710 * MiB

\* the scan of the example has returned with both files counted
C14_ExampleScanned ==
    /\ sc.pc = "done" /\ sc.scene = "example" /\ sc.bad = {}
    /\ sc.files = 2 /\ sc.result.totalSize = 710 * MiB

RECURSIVE sizeWithout(_, _, _)
\* the bytes below p when every node of bad counts for nothing: a file its
\* size on disk, a folded directory the answer of du or the sum of the walk,
\* whichever is more, another directory the sum of its children
sizeWithout(tree, bad, p) ==
    LET kids == KidPaths(tree, p)
        below[i \in 0..Len(kids)] ==
            IF i = 0 THEN 0 ELSE below[i - 1] + sizeWithout(tree, bad, kids[i])
    IN  IF p \in bad THEN 0
        ELSE IF ~tree[p].isDir
        THEN actualFileSize(tree[p].logical, tree[p].blocks)
        ELSE IF p # << >> /\ shouldFoldDirWithPath(Base(p), p)
        THEN IF tree[p].du > fastWalk(tree, bad, p).size
             THEN tree[p].du ELSE fastWalk(tree, bad, p).size
        ELSE below[Len(kids)]

\* C15: the scan returns an error exactly when the listing of root fails;
\* a descendant whose listing or stat fails adds no bytes (an unreadable
\* directory has size 0, a file without stat has no entry, nothing of it is
\* in its ancestors' sizes or in the total) and the scan returns a result.
C15_ErrorIffRootListingFails ==
    LET tree == WalkTree(sc.scene)
        root == WalkRoot(sc.scene)
    IN  /\ sc.pc = "done" => (sc.err <=> root \in sc.bad)
        /\ (sc.pc = "done" /\ ~sc.err) =>
              /\ sc.result.totalSize = SumSizes(sc.entries)
              /\ sc.result.totalSize <= sizeWithout(tree, sc.bad, root)
              /\ \A i \in 1..Len(sc.entries) :
                    /\ sc.entries[i].path \in sc.bad => sc.entries[i].size = 0
                    /\ sc.entries[i].size <= sizeWithout(tree, sc.bad, sc.entries[i].path)
                    /\ tree[sc.entries[i].path].isDir \/ sc.entries[i].path \notin sc.bad
        /\ \A p \in DOMAIN sc.t :
              /\ p \in sc.bad => sc.t[p].total = 0 /\ sc.t[p].due = 0
              /\ sc.t[p].due <= sizeWithout(tree, sc.bad, p)

\* a scan returned a result although a directory below root could not be
\* listed: the directory is an entry of size 0
C15_UnreadableChildScanned ==
    /\ sc.pc = "done" /\ ~sc.err
    /\ sc.scene = "deep" /\ sc.bad = {<<"t", "d">>}
    /\ \E i \in 1..Len(sc.result.entries) :
          sc.result.entries[i].path = <<"t", "d">> /\ sc.result.entries[i].size = 0
    /\ sc.result.totalSize > 0

\* the goroutines of the scan that have been started and have not ended
Unfinished == {p \in DOMAIN sc.t : sc.t[p].pc \notin {"none", "done"}}

\* C16: scanPathConcurrent returns only when every goroutine it started,
\* and every goroutine those started, has ended, and the entries and the
\* total it returns hold what each of them added: the size of a directory
\* is the sum of what was added to it.
C16_ReturnsAfterAllTasksWithAllContributions ==
    sc.pc \in {"spotlight", "done"} =>
        /\ Unfinished = {}
        /\ \A p \in DOMAIN sc.t : sc.t[p].total = sc.t[p].due
        /\ sc.err \/ sc.total = SumSizes(sc.entries)
        /\ \A i \in 1..Len(sc.entries) :
              sc.entries[i].path \in DOMAIN sc.t =>
                  \/ shouldFoldDirWithPath(sc.entries[i].name, sc.entries[i].path)
                  \/ sc.entries[i].size = sc.t[sc.entries[i].path].due

\* C16, the join alone: scanPathConcurrent returns only when every
\* goroutine it started, and every goroutine those started, has ended.
C16_ReturnsAfterAllTasks ==
    sc.pc \in {"spotlight", "done"} => Unfinished = {}

\* the goroutines measuring a directory: du running, or the directory
\* being listed and summed
Measuring == {p \in DOMAIN sc.t : sc.t[p].pc \in {"run", "list", "loop", "add"}}

\* C17: every goroutine that measures a directory, folded or expanded and
\* at any depth, holds a slot of the pool while it measures and has given
\* it back when it has ended, so that no more goroutines measure than the
\* pool of scanPathConcurrent has slots.
C17_EveryMeasurementHoldsPoolSlot ==
    LET root == WalkRoot(sc.scene)
    IN  /\ \A p \in DOMAIN sc.t :
              /\ p \in Measuring => sc.t[p].holds
              /\ sc.t[p].pc \in {"none", "sem", "done"} => ~sc.t[p].holds
        /\ Cardinality(Measuring) <= maxWorkers(Len(WalkTree(sc.scene)[root].kids))

\* C18: from the start of a scan until its result is delivered, the
\* counters of files, of directories and of bytes that the view reads never
\* go down.
C18_CountersNeverDecreaseDuringScan ==
    [][sc.pc \in {"start", "loop", "spotlight"} =>
          /\ sc'.files >= sc.files
          /\ sc'.dirs >= sc.dirs
          /\ sc'.bytes >= sc.bytes]_vars

\* the external tools that are running: du for a folded directory, mdfind
\* after the join
RunningTools ==
    (IF \E p \in DOMAIN sc.t : sc.t[p].pc = "run" THEN {"du"} ELSE {})
        \cup (IF sc.pc = "spotlight" THEN {"mdfind"} ELSE {})

\* C19: every external tool that a scan runs (du, mdls, mdfind) runs under
\* a deadline, so that its caller does not wait longer than that.
C19_EveryToolRunsUnderDeadline ==
    \A tool \in RunningTools : toolDeadline(tool) > 0

(***************************************************************************)
(* Properties of the save of scanCmd, checked under SpecCmd.               *)
(***************************************************************************)
\* goroutine j comes back from scanGroup.Do in this step
ReturnsFromDo(j) == scans[j].pc \in {"lead", "wait"} /\ scans'[j].pc = "ret"

\* C20: a request whose scan succeeded returns its result with its save
\* still to run; the save runs once, a cache file is written only by a
\* save that is then over, whatever the save does leaves the result and the
\* error returned as they were, and a request whose scan failed starts no
\* save.
C20_SaveOnceAfterDeliveryNeverBlocks ==
    [][/\ \A j \in 1..MaxScans :
             ReturnsFromDo(j) =>
                 IF scans'[j].err
                 THEN \A s \in saves' : s.id # j
                 ELSE \E s \in saves' \ saves :
                         /\ s.id = j
                         /\ s.res = scans'[j].res
                         /\ \A s2 \in saves' : s2.id = j => s2 = s
       /\ \A s \in saves' \ saves : ReturnsFromDo(s.id) /\ ~scans'[s.id].err
       /\ disk' # disk => \E s \in saves : saves' = saves \ {s}
       /\ saves' # saves /\ saves' \subseteq saves => scans' = scans
       /\ \A j \in 1..MaxScans : scans[j].pc = "ret" => scans'[j] = scans[j]
      ]_vars

\* a request got the result of a walk without error, its save has run and
\* failed, leaving a file that does not decode
C20_DeliveredAndSaveFailed ==
    \E j \in 1..MaxScans :
        /\ scans[j].pc = "ret" /\ scans[j].src = "walk" /\ ~scans[j].err
        /\ \A s \in saves : s.id # j
        /\ disk[scans[j].path] = Garbled
        /\ scans[j].res # NoResult

(***************************************************************************)
(* Properties of the cache lookup of scanCmd, checked under SpecCmd.       *)
(***************************************************************************)
\* C21: a request that finds no cache file, or one that cannot be opened
\* or decoded, goes on to scanGroup.Do without error, and what it returns
\* then comes from a walk; an error a request returns is the error of the
\* walk, never one of the cache.
C21_CacheErrorFallsThroughToScan ==
    [][\A j \in 1..MaxScans :
          /\ (/\ scans[j].pc = "load" /\ scans'[j].pc # "load"
              /\ disk[scans[j].path].kind # "record")
                => scans'[j].pc = "do" /\ ~scans'[j].err
          /\ scans[j].pc = "do" => scans'[j].pc \in {"do", "lead", "wait"}
          /\ (scans'[j].pc = "ret" /\ ~scans'[j].ld.dec)
                => scans'[j].src = "walk"
          /\ (scans'[j].pc = "ret" /\ scans'[j].err)
                => /\ scans'[j].src = "walk"
                   /\ scanPathConcurrent(fsEx, scans'[j].path).err
      ]_vars

\* a request found a cache file that does not decode, left by the save of
\* an earlier request, and returned the result of a walk without error
C21_GarbledRecordThenWalk ==
    \E j \in 1..MaxScans :
        /\ scans[j].pc = "ret" /\ scans[j].src = "walk" /\ ~scans[j].err
        /\ ~scans[j].ld.dec
        /\ scans[j].prior # 0
        /\ disk[scans[j].path] = Garbled

(***************************************************************************)
(* Properties of the largeFileTracker, checked under SpecTracker.          *)
(***************************************************************************)
\* the smaller of two numbers
Min(a, b) == IF a < b THEN a ELSE b

\* how many files of size v or larger add has returned for
AddedAtLeast(v) ==
    SumOver([x \in TrackerSizes |-> IF x >= v THEN tr.added[x] ELSE 0], TrackerSizes)

\* es is the list of the maxLargeFilesTracker largest files added, largest
\* first: for every size it holds as many files that large as were added,
\* up to maxLargeFilesTracker, and nothing below minLargeFileSize
IsTopOfAdded(es) ==
    /\ \A i \in 1..(Len(es) - 1) : es[i].size >= es[i + 1].size
    /\ \A i \in 1..Len(es) : es[i].size >= minLargeFileSize
    /\ \A v \in TrackerSizes :
          v >= minLargeFileSize =>
              CountAtLeast(es, v) = Min(maxLargeFilesTracker, AddedAtLeast(v))

\* C22: whatever add calls were made, in whatever interleaving, list
\* returns, largest first, the maxLargeFilesTracker largest of the files of
\* at least 100 MiB that add has returned for (all when they are fewer): no
\* cut and no threshold has dropped one of them.
C22_ListReturnsTopOfAdded ==
    [][\A g \in TrackerWorkers :
          (tr.w[g].pc = "lin" /\ tr'.w[g].pc = "idle") => IsTopOfAdded(tr'.entries)
      ]_vars

\* list has returned after the buffer was cut in add, the threshold was
\* raised and files below it, of at least 100 MiB, were added
C22_ListAfterCutAndRaisedThreshold ==
    /\ tr.last = "list"
    /\ tr.minSize > minLargeFileSize
    /\ tr.added[100 * MiB] > 0
    /\ AddedAtLeast(minLargeFileSize) > maxLargeFilesTracker * 3
    /\ Len(tr.entries) = maxLargeFilesTracker

\* C23: add and list read and write the state the goroutines share (the
\* entries, the threshold minSize, the flag needsSort) only while they hold
\* the mutex of the tracker.
C23_TrackerStateOnlyUnderMutex ==
    [][\A g \in TrackerWorkers :
          \* the test of f.size against t.minSize
          /\ (tr.w[g].pc = "idle" /\ tr'.w[g].pc \in {"idle", "lock"}
                 /\ tr'.w[g] # tr.w[g])
                => tr.mu = g
          \* the bodies of add and list
          /\ (tr.w[g].pc \in {"in", "lin"} /\ tr'.w[g].pc = "idle") => tr.mu = g
      ]_vars

\* C23, the statements after the Lock: in add and in list everything after
\* t.mu.Lock() runs while the goroutine holds the mutex, and no two
\* goroutines are there at once.
C23_BodiesUnderMutex ==
    /\ \A g \in TrackerWorkers : tr.w[g].pc \in {"in", "lin"} <=> tr.mu = g
    /\ Cardinality({g \in TrackerWorkers : tr.w[g].pc \in {"in", "lin"}}) <= 1

(***************************************************************************)
(* Properties of the overview size store, checked under SpecOverview.      *)
(***************************************************************************)
\* the document at the final path has path p with this size
InDocument(p, size) ==
    /\ ov.s.file.kind = "doc"
    /\ ov.s.file.data[p].has
    /\ ov.s.file.data[p].Size = size

C25_FinalPathNeverPartial ==
    /\ [](ov.s.file.kind # "partial")
    /\ [][ov.s.file' # ov.s.file =>
            \/ ov.s.file.kind = "corrupt" /\ ov.s.file' = NoDocument
            \/ ov.s.file' = Doc(ov.s.cache')]_vars

\* the temporary file is half written over an older complete document
\* while another goroutine waits to put
C25_HalfWrittenTemporaryFile ==
    /\ ov.s.tmp.kind = "partial"
    /\ ov.s.file.kind = "doc"
    /\ ov.s.file.data # ov.s.cache
    /\ \E g \in OvGoroutines :
         ov.g[g].pc = "put" /\ ~storeRejects(ov.g[g].path, ov.g[g].arg)

\* the entry of path p in the map is one get may return
Usable(c, p, t) ==
    c[p].has /\ c[p].Size > 0 /\ t - c[p].Updated < overviewCacheTTL

\* the map the first load makes of the document found at start
FoundSnapshots == IF ov.found.kind = "doc" THEN ov.found.data ELSE NoSnapshots

\* C26: a get returns a size exactly when the loaded map has for the path
\* an entry with a positive size that is less than 7 days old, and then
\* that size; every other entry, and a path without entry, is a miss: the
\* measurement goes on to du, and at start the shortcut takes the size of
\* the gob record or stays unmeasured.  A put with the empty path or with a
\* size <= 0 returns with the map, the document and the temporary file as
\* they were.
C26_GetOnlyUsableAndPutRejectsInvalid ==
    [][/\ (~ov.started /\ ov.started') =>
            \A i \in 1..Len(ov.u.entries) :
              LET path == ov.u.entries[i].path
              IN  ov.u.entries'[i].size =
                    IF Usable(FoundSnapshots, path, ov.now)
                    THEN FoundSnapshots[path].Size
                    ELSE ov.gobs[path]
       /\ \A g \in OvGoroutines :
         /\ (ov.g[g].pc = "get" /\ ov.g[g]'.pc # "get") =>
              LET hit == ov.g[g]'.pc = "ret" /\ ~ov.g[g]'.err
              IN  /\ hit <=> Usable(ov.s'.cache, ov.g[g].path, ov.now)
                  /\ hit => /\ ov.g[g]'.size = ov.s'.cache[ov.g[g].path].Size
                            /\ ov.g[g]'.size > 0
                  /\ ~hit => ov.g[g]'.pc = "du"
         /\ (/\ ov.g[g].pc = "put"
             /\ ov.g[g].path = NoName \/ ov.g[g].arg <= 0
             /\ ov.g[g]'.pc # "put") =>
              ov.s' = ov.s /\ ov.g[g]'.pc = "ret"]_vars

\* a get has missed an entry that is exactly 7 days old, and a put with a
\* size of 0 or the empty path has returned
C26_MissAtSevenDaysAndPutRejected ==
    /\ ov.g[1].pc = "du"
    /\ ov.s.cache[ov.g[1].path].has
    /\ ov.s.cache[ov.g[1].path].Size > 0
    /\ ov.now - ov.s.cache[ov.g[1].path].Updated = overviewCacheTTL
    /\ ov.g[OvCaller].pc = "ret"
    /\ storeRejects(ov.g[OvCaller].path, ov.g[OvCaller].arg)

IsStrategy(x) == x \in {"du", "mdls", "walk"}

StrategyOrder == <<"du", "mdls", "walk">>

\* C28: a measurement that has returned has tried du, then the metadata
\* index, then the logical walk, stopping at the first that succeeded, and
\* it has returned either an error or a size that is not zero.
C28_FixedOrderFirstSuccessNeverZero ==
    \A g \in OvMeasurers :
      (ov.g[g].pc \in {"ret", "done"} /\ ov.g[g].tried # << >>) =>
        LET ms == SelectSeq(ov.g[g].tried, IsStrategy)
        IN  /\ ms = SubSeq(StrategyOrder, 1, Len(ms))
            /\ ~ov.g[g].err => ov.g[g].size > 0

\* C29: when the handler of overviewSizeMsg has handled a measurement that
\* failed, the status of the resulting model reports the failure.
C29_FailedMeasurementLeavesStatus ==
    [][\A g \in OvMeasurers :
         (ov.g[g].pc = "ret" /\ ov.g[g].err /\ ov.g[g]'.pc = "done") =>
           ov.u'.status = "Unable to measure"]_vars

(***************************************************************************)
(* Properties of calculateDirSizeConcurrent, checked under SpecWalk.       *)
(***************************************************************************)
\* the sizes of the regular files of directory p that could be read and
\* the sizes the goroutines of its subdirectories have got
SumOfParts(p) ==
    LET tree == WalkTree(sc.scene)
        kids == {KidPaths(tree, p)[i] : i \in 1..Len(KidPaths(tree, p))}
        part == [k \in kids |->
                   IF tree[k].isDir THEN sc.t[k].size
                   ELSE IF k \in sc.bad THEN 0
                   ELSE actualFileSize(tree[k].logical, tree[k].blocks)]
    IN  IF p \in sc.bad THEN 0 ELSE SumOver(part, kids)

\* C30: the size calculateDirSizeConcurrent has returned for an expanded
\* directory is the sum of the sizes of its regular files and of the sizes
\* computed for its subdirectories, in whatever order the goroutines of
\* the subdirectories ran.
C30_ExpandedSizeIsSumOfParts ==
    \A p \in DOMAIN sc.t :
      (sc.t[p].pc = "done" /\ ~shouldFoldDirWithPath(Base(p), p)) =>
        sc.t[p].size = SumOfParts(p)

(***************************************************************************)
(* Termination of a scan, checked under SpecJoinFair.                      *)
(***************************************************************************)
\* C31: when every goroutine that can take a step takes one in the end,
\* scanPathConcurrent returns: no goroutine waits for ever for a slot of
\* the pool of scanPathConcurrent or of calculateDirSizeConcurrent, for
\* room in entryChan or largeFileChan, or in a Wait.
C31_ScanEventuallyReturns == <>(sc.pc = "done")

\* every slot of a pool is taken with a goroutine waiting for one, or
\* largeFileChan is full with the loop about to send
C31_PoolOrChannelFull ==
    \/ sc.chan = largeFileChanCap /\ sc.i <= JoinChildren(sc.scene)
    \/ sc.top.sem > 0 /\ JoinHeld = maxWorkers(JoinChildren(sc.scene))
    \/ sc.sub.sem > 0 /\ sc.sub.file + sc.sub.ret = maxConcurrent

(***************************************************************************)
(* Properties of the folded directories of a scan, checked under SpecWalk. *)
(***************************************************************************)
\* C32: the size a goroutine has got for a folded directory, below root or
\* further down, is what du reports for it or, when du gave nothing, what
\* the walk below it sums up.
C32_FoldedSizeFromDuOrWalk ==
    \A p \in DOMAIN sc.t :
      (sc.t[p].pc = "done" /\ shouldFoldDirWithPath(Base(p), p)) =>
        \/ sc.t[p].size > 0 /\ sc.t[p].size = WalkTree(sc.scene)[p].du
        \/ sc.t[p].size = fastWalk(WalkTree(sc.scene), sc.bad, p).size

(***************************************************************************)
(* Properties of the modification-time check, checked under SpecGrace.     *)
(***************************************************************************)
\* C33: loadCacheFromDisk returns a record that decodes and is not older
\* than cacheTTL exactly when the directory's modification time is not
\* later than the recorded one by more than cacheModTimeGrace.
C33_ValidWithinGraceWindow ==
    (sc.pc = "ret" /\ ~(DayOf(sc.now) - sc.file.ScanTime > cacheTTL)) =>
        (sc.hit <=> sc.mt - sc.file.ModTime <= cacheModTimeGrace)

(***************************************************************************)
(* Properties of the tracker's buffer and threshold, under SpecTracker.    *)
(***************************************************************************)
\* how many files of size v or larger the buffer holds with f appended
CountWith(f, v) == CountAtLeast(tr.entries, v) + (IF f >= v THEN 1 ELSE 0)

\* C34: every add that appends leaves at most 3 * maxLargeFiles files in the
\* buffer; it cuts the buffer only when the append made it longer than
\* that, and then leaves exactly the maxLargeFiles largest and sets minSize
\* to the size of the smallest of them; no step lowers minSize, which is
\* never below minLargeFileSize.
C34_BufferBoundedThresholdMonotone ==
    [][/\ tr'.minSize >= tr.minSize
       /\ tr.minSize >= minLargeFileSize
       /\ \A g \in TrackerWorkers :
            (tr.w[g].pc = "in" /\ tr'.w[g].pc = "idle") =>
              LET f == tr.w[g].f
                  n == Len(tr.entries) + 1
              IN  /\ Len(tr'.entries) <= maxLargeFilesTracker * 3
                  /\ n <= maxLargeFilesTracker * 3 =>
                        /\ Len(tr'.entries) = n
                        /\ tr'.minSize = tr.minSize
                        /\ \A v \in TrackerSizes :
                              CountAtLeast(tr'.entries, v) = CountWith(f, v)
                  /\ n > maxLargeFilesTracker * 3 =>
                        /\ Len(tr'.entries) = maxLargeFilesTracker
                        /\ \A v \in TrackerSizes :
                              CountAtLeast(tr'.entries, v)
                                  = Min(maxLargeFilesTracker, CountWith(f, v))
                        /\ tr'.minSize \in TrackerSizes
                        /\ CountWith(f, tr'.minSize) >= maxLargeFilesTracker
                        /\ \A v \in TrackerSizes :
                              v > tr'.minSize =>
                                  CountWith(f, v) < maxLargeFilesTracker
      ]_vars

\* an add has just cut a buffer of more than 3 * maxLargeFiles files and
\* raised the threshold above minLargeFileSize
C34_AddCutAndRaisedThreshold ==
    /\ tr.last = "add"
    /\ Len(tr.entries) = maxLargeFilesTracker
    /\ ~tr.needsSort
    /\ tr.minSize > minLargeFileSize
    /\ AddedAtLeast(minLargeFileSize) > maxLargeFilesTracker * 3

(***************************************************************************)
(* Properties of the batched counter updates, checked under SpecBatch.     *)
(***************************************************************************)
\* C35: when the walk has returned, what it has added to filesScanned,
\* dirsScanned and bytesScanned is the number of files, the number of
\* directories and the bytes it has counted, and the bytes are what it
\* returns; between two callbacks each counter is behind by what fewer than
\* batchUpdateSize files or directories make.
C35_CountersExactAtReturnLagBelowBatch ==
    /\ sc.pc = "done" =>
          /\ sc.filesScanned = sc.files
          /\ sc.dirsScanned = sc.dirs
          /\ sc.bytesScanned = sc.bytes
          /\ sc.ret = sc.bytes
    /\ sc.pc = "walk" =>
          /\ sc.files - sc.filesScanned >= 0
          /\ sc.files - sc.filesScanned < batchUpdateSize
          /\ sc.dirs - sc.dirsScanned >= 0
          /\ sc.dirs - sc.dirsScanned < batchUpdateSize
          /\ sc.bytes - sc.bytesScanned >= 0
          /\ \E k \in 0..(batchUpdateSize - 1) :
                /\ k = sc.files - sc.filesScanned
                /\ sc.bytes - sc.bytesScanned <= k * 4096

\* the walk has returned after a full batch of files and some more, with
\* directories and an empty file among them
C35_ReturnedAfterBatchAndRemainder ==
    /\ sc.pc = "done"
    /\ sc.files > batchUpdateSize
    /\ sc.dirs > 0
    /\ sc.bytes < sc.files * 4096
    /\ sc.bytes > batchUpdateSize * 4096

(***************************************************************************)
(* Properties of the scheduling of overview measurements, checked under    *)
(* SpecSchedule and SpecScheduleFair.                                      *)
(***************************************************************************)
\* the measurement goroutines that have not returned
InFlight == SumOver(ov.run, Shortcuts)

\* C36: at no time are more than maxConcurrentOverview measurements of
\* overview sizes running.
C36_AtMostThreeInFlight == InFlight <= maxConcurrentOverview

\* C37: with the user staying on the overview, every entry without a size
\* gets one, the measured size or 0 after a failure; no shortcut is measured
\* by two goroutines at once; and an entry hydrated from the store is never
\* measured.
C37_EveryShortcutResolvedOncePerPath ==
    /\ <>[](\A i \in Shortcuts : ov.u.entries[i].size >= 0)
    /\ [](\A i \in Shortcuts :
            /\ ov.run[i] <= 1
            /\ i \in ov.cached => ov.run[i] + ov.ok[i] + ov.bad[i] = 0
            /\ i \in ov.cached => ov.u.entries[i].size = ShortcutSizes.stored)

\* all five shortcuts have a size, two from the store, one after a failed
\* measurement, the others measured
C37_AllResolvedSomeCachedSomeFailed ==
    /\ \A i \in Shortcuts : ov.u.entries[i].size >= 0
    /\ Cardinality(ov.cached) = 2
    /\ \E i \in Shortcuts \ ov.cached : ov.u.entries[i].size = 0
    /\ \E i \in Shortcuts \ ov.cached : ov.u.entries[i].size = ShortcutSizes.measured
    /\ ov.u.overviewScanningSet = {}

(***************************************************************************)
(* Properties of the results of scans and of the cursors, under Spec.      *)
(***************************************************************************)
\* C38: Update applies a scanResultMsg only while the model is at the path
\* the scan was started for: the message of a scan of another path changes
\* neither the entries nor the snapshots of m.cache nor the sizes of
\* m.overviewSizeCache.
C38_ResultAppliedOnlyToRequestedPath ==
    [][\A i \in 1..MaxScans :
          (/\ scans[i].pc = "ret" /\ scans'[i].pc = "done"
           /\ scans[i].path # m.path)
          => /\ m'.entries = m.entries
             /\ m'.largeFiles = m.largeFiles
             /\ m'.cache = m.cache
             /\ m'.overviewSizeCache = m.overviewSizeCache
      ]_vars

\* C39: while the program runs, the cursor of a list that has rows is on
\* one of them, 0 <= selected < len(entries) and
\* 0 <= largeSelected < len(largeFiles), and no key handler has indexed a
\* list out of range.
C39_CursorsInRange ==
    /\ ~m.panicked
    /\ m.running =>
          /\ Len(m.entries) > 0 => (0 <= m.selected /\ m.selected < Len(m.entries))
          /\ Len(m.largeFiles) > 0 =>
                (0 <= m.largeSelected /\ m.largeSelected < Len(m.largeFiles))

=============================================================================
